---------------------------- MODULE Spec2Model ----------------------------
(***************************************************************************)
(* A model of the HTTP request router of routes.go: route registration     *)
(* (AddRoute, the per-method registrants, Static), the dispatch algorithm  *)
(* of RouteMux.ServeHTTP, the OPTIONS aggregation and the responseWriter   *)
(* wrapper.                                                                *)
(*                                                                         *)
(* Text the code inspects character by character (route templates, request *)
(* paths, query strings, file paths) is a sequence of one-character        *)
(* strings: "/a" is <<"/", "a">>.  Text the code only compares or          *)
(* concatenates (method names, header names and values) is a TLA+ string.  *)
(***************************************************************************)
EXTENDS Integers, Sequences, FiniteSets, TLC

(***************************************************************************)
(* Bounds of the model.                                                    *)
(***************************************************************************)
\* the longest route table the registration phase builds
MaxRoutes == 2

\* the size of the buffer io.Copy moves a file's content through
CopyBuffer == 32768

(***************************************************************************)
(* routes.go 18-36: the method constants.  sort.Strings (line 251) orders  *)
(* strings bytewise; MethodRank is that order on the method constants.     *)
(***************************************************************************)
CONNECT == "CONNECT"
DELETE == "DELETE"
GET == "GET"
HEAD == "HEAD"
OPTIONS == "OPTIONS"
PATCH == "PATCH"
POST == "POST"
PUT == "PUT"
TRACE == "TRACE"

Methods == {CONNECT, DELETE, GET, HEAD, OPTIONS, PATCH, POST, PUT, TRACE}

MethodRank(m) ==
    CASE m = CONNECT -> 1
      [] m = DELETE -> 2
      [] m = GET -> 3
      [] m = HEAD -> 4
      [] m = OPTIONS -> 5
      [] m = PATCH -> 6
      [] m = POST -> 7
      [] m = PUT -> 8
      [] m = TRACE -> 9

\* routes.go 40
DefaultAccessControlOrigin == "*"

(***************************************************************************)
(* Helpers on character sequences: the functions of package strings that   *)
(* AddRoute calls.                                                         *)
(***************************************************************************)
\* the 256 bytes in their order: ByteOrder[n + 1] is byte n, a printable
\* ASCII character as itself and any other byte (and the backquote, which a
\* string of this language cannot hold) as "<XX>"; sort.Strings of the keys
\* in Values.Encode compares bytes, and so does a class range
ByteOrder ==
    <<
      "<00>", "<01>", "<02>", "<03>", "<04>", "<05>", "<06>", "<07>",
      "<08>", "<09>", "<0A>", "<0B>", "<0C>", "<0D>", "<0E>", "<0F>",
      "<10>", "<11>", "<12>", "<13>", "<14>", "<15>", "<16>", "<17>",
      "<18>", "<19>", "<1A>", "<1B>", "<1C>", "<1D>", "<1E>", "<1F>",
      " ", "!", "\"", "#", "$", "%", "&", "'",
      "(", ")", "*", "+", ",", "-", ".", "/",
      "0", "1", "2", "3", "4", "5", "6", "7",
      "8", "9", ":", ";", "<", "=", ">", "?",
      "@", "A", "B", "C", "D", "E", "F", "G",
      "H", "I", "J", "K", "L", "M", "N", "O",
      "P", "Q", "R", "S", "T", "U", "V", "W",
      "X", "Y", "Z", "[", "\\", "]", "^", "_",
      "<60>", "a", "b", "c", "d", "e", "f", "g",
      "h", "i", "j", "k", "l", "m", "n", "o",
      "p", "q", "r", "s", "t", "u", "v", "w",
      "x", "y", "z", "{", "|", "}", "~", "<7F>",
      "<80>", "<81>", "<82>", "<83>", "<84>", "<85>", "<86>", "<87>",
      "<88>", "<89>", "<8A>", "<8B>", "<8C>", "<8D>", "<8E>", "<8F>",
      "<90>", "<91>", "<92>", "<93>", "<94>", "<95>", "<96>", "<97>",
      "<98>", "<99>", "<9A>", "<9B>", "<9C>", "<9D>", "<9E>", "<9F>",
      "<A0>", "<A1>", "<A2>", "<A3>", "<A4>", "<A5>", "<A6>", "<A7>",
      "<A8>", "<A9>", "<AA>", "<AB>", "<AC>", "<AD>", "<AE>", "<AF>",
      "<B0>", "<B1>", "<B2>", "<B3>", "<B4>", "<B5>", "<B6>", "<B7>",
      "<B8>", "<B9>", "<BA>", "<BB>", "<BC>", "<BD>", "<BE>", "<BF>",
      "<C0>", "<C1>", "<C2>", "<C3>", "<C4>", "<C5>", "<C6>", "<C7>",
      "<C8>", "<C9>", "<CA>", "<CB>", "<CC>", "<CD>", "<CE>", "<CF>",
      "<D0>", "<D1>", "<D2>", "<D3>", "<D4>", "<D5>", "<D6>", "<D7>",
      "<D8>", "<D9>", "<DA>", "<DB>", "<DC>", "<DD>", "<DE>", "<DF>",
      "<E0>", "<E1>", "<E2>", "<E3>", "<E4>", "<E5>", "<E6>", "<E7>",
      "<E8>", "<E9>", "<EA>", "<EB>", "<EC>", "<ED>", "<EE>", "<EF>",
      "<F0>", "<F1>", "<F2>", "<F3>", "<F4>", "<F5>", "<F6>", "<F7>",
      "<F8>", "<F9>", "<FA>", "<FB>", "<FC>", "<FD>", "<FE>", "<FF>"
    >>

\* the value of a byte
Ord(c) == (CHOOSE i \in 1..Len(ByteOrder) : ByteOrder[i] = c) - 1

\* the byte "." does not match
NewLine == ByteOrder[11]

\* the bytes below 0x80: the characters UTF-8 encodes in one byte
ASCII == {ByteOrder[n] : n \in 1..128}

\* byte j of s is there and has a value from lo to hi
ByteIn(s, j, lo, hi) == j <= Len(s) /\ Ord(s[j]) \in lo..hi

\* utf8.DecodeRuneInString at byte i of s (from 1): the number of bytes of
\* the character encoded there, 0 when the bytes are not a valid encoding
\* (a continuation or a disallowed first byte, a truncated, overlong or
\* surrogate sequence, a value above U+10FFFF)
DecodeWidth(s, i) ==
    IF s[i] \in ASCII THEN 1
    ELSE LET b == Ord(s[i]) IN
         IF b \in 194..223
         THEN IF ByteIn(s, i + 1, 128, 191) THEN 2 ELSE 0
         ELSE IF b \in 224..239
         THEN IF /\ ByteIn(s, i + 1, IF b = 224 THEN 160 ELSE 128,
                                     IF b = 237 THEN 159 ELSE 191)
                 /\ ByteIn(s, i + 2, 128, 191)
              THEN 3 ELSE 0
         ELSE IF b \in 240..244
         THEN IF /\ ByteIn(s, i + 1, IF b = 240 THEN 144 ELSE 128,
                                     IF b = 244 THEN 143 ELSE 191)
                 /\ ByteIn(s, i + 2, 128, 191)
                 /\ ByteIn(s, i + 3, 128, 191)
              THEN 4 ELSE 0
         ELSE 0

\* the bytes the matcher steps over at position pos (from 0) of a text: the
\* character encoded there, or the one byte of an invalid encoding
RuneWidth(s, pos) == IF DecodeWidth(s, pos + 1) = 0 THEN 1 ELSE DecodeWidth(s, pos + 1)

\* s from byte i on is valid UTF-8
RECURSIVE ValidUTF8From(_, _)
ValidUTF8From(s, i) ==
    IF i > Len(s) THEN TRUE
    ELSE IF DecodeWidth(s, i) = 0 THEN FALSE
    ELSE ValidUTF8From(s, i + DecodeWidth(s, i))

\* strings.HasPrefix(s, prefix)
HasPrefix(s, prefix) ==
    /\ Len(s) >= Len(prefix)
    /\ SubSeq(s, 1, Len(prefix)) = prefix

\* strings.HasSuffix
HasSuffix(s, suffix) ==
    /\ Len(s) >= Len(suffix)
    /\ SubSeq(s, Len(s) - Len(suffix) + 1, Len(s)) = suffix

\* strings.Index(s, c) for a one-character c: the 0-based index of the first
\* occurrence, -1 when there is none
Index(s, c) ==
    IF \E i \in 1..Len(s) : s[i] = c
    THEN (CHOOSE i \in 1..Len(s) : s[i] = c /\ \A k \in 1..(i - 1) : s[k] # c) - 1
    ELSE -1

\* strings.Split(s, sep) for a one-character sep: always at least one part
RECURSIVE Split(_, _)
Split(s, sep) ==
    LET i == Index(s, sep)
    IN IF i = -1
       THEN <<s>>
       ELSE <<SubSeq(s, 1, i)>> \o Split(SubSeq(s, i + 2, Len(s)), sep)

\* strings.Join(parts, sep)
RECURSIVE Join(_, _)
Join(parts, sep) ==
    IF Len(parts) = 0 THEN <<>>
    ELSE IF Len(parts) = 1 THEN parts[1]
    ELSE parts[1] \o sep \o Join(Tail(parts), sep)

(***************************************************************************)
(* routes.go 71-90: the rewriting of a template.  Every part that starts   *)
(* with ":" is replaced by a sub-pattern (the default, or the text from    *)
(* the first "(" on) and its name, the part up to that "(", ":" included,  *)
(* is recorded at the next position.                                       *)
(***************************************************************************)
\* a mutant of DefaultExpr: a single character, not one or more
DefaultExprOneChar == <<"(", "[", "^", "/", "]", ")">>

\* line 75
DefaultExpr == <<"(", "[", "^", "/", "]", "+", ")">>

\* lines 75-81: the sub-pattern of a ":" part
PartExpr(part) ==
    LET index == Index(part, "(")
    IN IF index # -1 THEN SubSeq(part, index + 1, Len(part)) ELSE DefaultExpr

\* lines 78-82: the name recorded for a ":" part
PartName(part) ==
    LET index == Index(part, "(")
    IN IF index # -1 THEN SubSeq(part, 1, index) ELSE part

\* lines 73-86: the parts after the loop
RewriteParts(parts) ==
    [i \in 1..Len(parts) |->
        IF HasPrefix(parts[i], <<":">>) THEN PartExpr(parts[i]) ELSE parts[i]]

\* lines 71-86: params, position j (0-based) at index j+1
RECURSIVE ParamNames(_)
ParamNames(parts) ==
    IF Len(parts) = 0 THEN <<>>
    ELSE IF HasPrefix(parts[1], <<":">>)
         THEN <<PartName(parts[1])>> \o ParamNames(Tail(parts))
         ELSE ParamNames(Tail(parts))

\* lines 67-90: the pattern handed to regexp.Compile
RewritePattern(pattern) == Join(RewriteParts(Split(pattern, "/")), <<"/">>)

(***************************************************************************)
(* routes.go 91: regexp.Compile.  The compiled expression is a program for  *)
(* a backtracking matcher, which tries the alternatives of every choice in *)
(* priority order; that is the leftmost-first match Go's regexp package    *)
(* reports.  The syntax covered: literal ASCII characters, ".", bracket    *)
(* classes of characters and ranges with an optional leading "^",          *)
(* capturing groups and the greedy "+" (on a character, a class or a       *)
(* group).  A pattern that is not valid UTF-8 does not compile.  A pattern *)
(* holding one of UnmodelledMeta outside a class, an escape or a named     *)
(* class inside one, or a character that is not ASCII, is marked           *)
(* modelled |-> FALSE and is never registered by the actions below.  The   *)
(* text matched is any sequence of bytes; the matcher steps over it one    *)
(* UTF-8 character at a time.                                              *)
(***************************************************************************)
UnmodelledMeta == {"*", "?", "|", "\\", "{", "^", "$"}

IChar(set, neg) == [op |-> "char", set |-> set, neg |-> neg, x |-> 0, y |-> 0, n |-> 0]
IAny == [op |-> "any", set |-> {}, neg |-> FALSE, x |-> 0, y |-> 0, n |-> 0]
ISplit(x, y) == [op |-> "split", set |-> {}, neg |-> FALSE, x |-> x, y |-> y, n |-> 0]
ISave(n) == [op |-> "save", set |-> {}, neg |-> FALSE, x |-> 0, y |-> 0, n |-> n]
IMatch == [op |-> "match", set |-> {}, neg |-> FALSE, x |-> 0, y |-> 0, n |-> 0]

\* the parser's state before the first character
ParseStart ==
    [ok |-> TRUE, modelled |-> TRUE, prog |-> <<>>, stack |-> <<>>,
     last |-> 0, rep |-> FALSE, ncap |-> 0]

ParseError(st) == [st EXCEPT !.ok = FALSE]

\* an atom (a character, "." or a class) appended to the program
EmitAtom(st, ins) ==
    [st EXCEPT !.prog = Append(@, ins), !.last = Len(st.prog) + 1, !.rep = FALSE]

\* the first member of the class opened at pat[i] = "[" is after "[" or "[^"
ClassFirst(pat, i) == IF i + 1 <= Len(pat) /\ pat[i + 1] = "^" THEN i + 2 ELSE i + 1

\* the index of the first ":]" at or after k, 0 when there is none
NamedClassEnd(pat, k) ==
    LET ends == {e \in k..(Len(pat) - 1) : pat[e] = ":" /\ pat[e + 1] = "]"}
    IN IF ends = {} THEN 0 ELSE CHOOSE e \in ends : \A e2 \in ends : e <= e2

\* a class item starts at k with "[:" and a ":]" follows: a named class
IsNamedClass(pat, k) ==
    /\ pat[k] = "["
    /\ k + 1 <= Len(pat)
    /\ pat[k + 1] = ":"
    /\ NamedClassEnd(pat, k + 2) # 0

\* the names of the classes "[:name:]" and "[:^name:]"
PosixNames ==
    {<<"a", "l", "n", "u", "m">>,
     <<"a", "l", "p", "h", "a">>,
     <<"a", "s", "c", "i", "i">>,
     <<"b", "l", "a", "n", "k">>,
     <<"c", "n", "t", "r", "l">>,
     <<"d", "i", "g", "i", "t">>,
     <<"g", "r", "a", "p", "h">>,
     <<"l", "o", "w", "e", "r">>,
     <<"p", "r", "i", "n", "t">>,
     <<"p", "u", "n", "c", "t">>,
     <<"s", "p", "a", "c", "e">>,
     <<"u", "p", "p", "e", "r">>,
     <<"w", "o", "r", "d">>,
     <<"x", "d", "i", "g", "i", "t">>}

\* the name between "[:" at k and the ":]" that follows is one of them
IsPosixName(pat, k) ==
    LET name == SubSeq(pat, k + 2, NamedClassEnd(pat, k + 2) - 1)
    IN \/ name \in PosixNames
       \/ Len(name) > 0 /\ name[1] = "^" /\ Tail(name) \in PosixNames

\* the length of the class character at k: a backslash takes the character
\* after it along
ClassCharWidth(pat, k) == IF pat[k] = "\\" THEN 2 ELSE 1

\* the character that ends at j - 1 is the low end of a range: a "-" follows
\* that is not the last character of the class
IsRange(pat, j) == j + 1 <= Len(pat) /\ pat[j] = "-" /\ pat[j + 1] # "]"

\* the index after the class item that starts at k: a named class, a range
\* lo-hi or a single character.  "[:" is a named class at the start of an
\* item only: as the high end of a range "[" is a character
ClassItemEnd(pat, k) ==
    IF IsNamedClass(pat, k) THEN NamedClassEnd(pat, k + 2) + 2
    ELSE LET j == k + ClassCharWidth(pat, k)
         IN IF IsRange(pat, j) THEN j + 1 + ClassCharWidth(pat, j + 1) ELSE j

\* the scan for the "]" that closes a class whose first member is at first,
\* item by item from position k on: a "]" at first is a member
RECURSIVE ClassCloseFrom(_, _, _)
ClassCloseFrom(pat, k, first) ==
    IF k > Len(pat) THEN 0
    ELSE IF pat[k] = "]" /\ k > first THEN k
    ELSE ClassCloseFrom(pat, ClassItemEnd(pat, k), first)

\* the index of the "]" that closes the class opened at pat[i] = "[", 0 when
\* there is none
ClassClose(pat, i) == ClassCloseFrom(pat, ClassFirst(pat, i), ClassFirst(pat, i))

\* the bytes from lo to hi
ByteRange(lo, hi) == {ByteOrder[n + 1] : n \in Ord(lo)..Ord(hi)}

\* the members of a class, item by item from position k up to the closing
\* "]" at close: a single character, or a range lo-hi; a range with hi < lo
\* and a named class of an unknown name are errors; an escape, a named
\* class and a character that is not ASCII are not modelled
RECURSIVE ClassMembers(_, _, _)
ClassMembers(pat, k, close) ==
    IF k >= close THEN [ok |-> TRUE, modelled |-> TRUE, set |-> {}]
    ELSE IF IsNamedClass(pat, k)
    THEN [ok |-> IsPosixName(pat, k), modelled |-> ~IsPosixName(pat, k), set |-> {}]
    ELSE IF pat[k] = "\\"
    THEN [ok |-> TRUE, modelled |-> FALSE, set |-> {}]
    ELSE IF pat[k] \notin ASCII
    THEN [ok |-> DecodeWidth(pat, k) # 0, modelled |-> DecodeWidth(pat, k) = 0, set |-> {}]
    ELSE IF IsRange(pat, k + 1)
    THEN IF pat[k + 2] = "\\"
         THEN [ok |-> TRUE, modelled |-> FALSE, set |-> {}]
         ELSE IF pat[k + 2] \notin ASCII
         THEN [ok |-> DecodeWidth(pat, k + 2) # 0,
               modelled |-> DecodeWidth(pat, k + 2) = 0, set |-> {}]
         ELSE IF Ord(pat[k + 2]) < Ord(pat[k])
         THEN [ok |-> FALSE, modelled |-> TRUE, set |-> {}]
         ELSE LET rest == ClassMembers(pat, k + 3, close)
              IN [rest EXCEPT !.set = @ \cup ByteRange(pat[k], pat[k + 2])]
    ELSE LET rest == ClassMembers(pat, k + 1, close)
         IN [rest EXCEPT !.set = @ \cup {pat[k]}]

\* regexp/syntax: the parse of pat from position i on, one construct a step
RECURSIVE CompileFrom(_, _, _)
CompileFrom(pat, i, st) ==
    IF ~st.ok THEN st
    ELSE IF i > Len(pat)
    THEN IF Len(st.stack) > 0
         THEN ParseError(st)                   \* missing closing )
         ELSE [st EXCEPT !.prog = Append(@, IMatch)]
    ELSE LET c == pat[i] IN
    CASE c = "(" ->
           LET g == st.ncap + 1 IN
           CompileFrom(pat, i + 1,
               [st EXCEPT !.prog = Append(@, ISave(2 * g)),
                          !.stack = Append(@, [start |-> Len(st.prog) + 1, g |-> g]),
                          !.last = 0, !.rep = FALSE, !.ncap = g])
      [] c = ")" ->
           IF Len(st.stack) = 0
           THEN ParseError(st)                 \* unexpected )
           ELSE LET top == st.stack[Len(st.stack)] IN
                CompileFrom(pat, i + 1,
                    [st EXCEPT !.prog = Append(@, ISave(2 * top.g + 1)),
                               !.stack = SubSeq(@, 1, Len(@) - 1),
                               !.last = top.start, !.rep = FALSE])
      [] c = "+" ->
           IF st.last = 0 \/ st.rep
           THEN ParseError(st)                 \* missing argument, nested repetition
           ELSE CompileFrom(pat, i + 1,
                    [st EXCEPT !.prog = Append(@, ISplit(st.last, Len(st.prog) + 2)),
                               !.rep = TRUE])
      [] c = "." -> CompileFrom(pat, i + 1, EmitAtom(st, IAny))
      [] c = "[" ->
           LET close == ClassClose(pat, i)
               first == ClassFirst(pat, i)
               class == ClassMembers(pat, first, close)
           IN IF close = 0
              THEN ParseError(st)              \* missing closing ]
              ELSE IF ~class.modelled
              THEN [st EXCEPT !.modelled = FALSE]
              ELSE IF ~class.ok
              THEN ParseError(st)              \* invalid character class range
              ELSE CompileFrom(pat, close + 1,
                       EmitAtom(st, IChar(class.set, first = i + 2)))
      [] c \in UnmodelledMeta ->
           [st EXCEPT !.modelled = FALSE]
      [] c \notin ASCII ->
           IF DecodeWidth(pat, i) = 0
           THEN ParseError(st)                 \* invalid UTF-8
           ELSE [st EXCEPT !.modelled = FALSE]
      [] OTHER -> CompileFrom(pat, i + 1, EmitAtom(st, IChar({c}, FALSE)))

\* regexp.Compile(pattern): ok is regexErr == nil
Compile(pattern) ==
    IF ~ValidUTF8From(pattern, 1) THEN ParseError(ParseStart)
    ELSE CompileFrom(pattern, 1, ParseStart)

\* the thread of the matcher at instruction pc and input position pos (the
\* number of characters consumed); caps[n] is the position saved in slot n
NoMatch == [ok |-> FALSE, caps |-> <<>>, end |-> 0, visited |-> {}]

\* the thread has failed, having visited these (instruction, position) pairs
Failed(visited) == [NoMatch EXCEPT !.visited = visited]

\* the character at position pos of s is one of set: the members of a set
\* are ASCII characters
InClass(set, s, pos) == s[pos + 1] \in ASCII /\ s[pos + 1] \in set

\* the backtracking matcher: an (instruction, position) pair is visited once
\* in a search, so a loop around an expression that matched the empty string
\* is not entered again at the same position.  A character or "." consumes
\* one UTF-8 character of the text
RECURSIVE Run(_, _, _, _, _, _)
Run(prog, pc, pos, caps, s, visited) ==
    IF <<pc, pos>> \in visited THEN Failed(visited)
    ELSE
    LET ins == prog[pc]
        seen == visited \cup {<<pc, pos>>}
    IN
    CASE ins.op = "match" -> [ok |-> TRUE, caps |-> caps, end |-> pos, visited |-> seen]
      [] ins.op = "char" ->
           IF pos < Len(s) /\ (InClass(ins.set, s, pos) # ins.neg)
           THEN Run(prog, pc + 1, pos + RuneWidth(s, pos), caps, s, seen)
           ELSE Failed(seen)
      [] ins.op = "any" ->
           IF pos < Len(s) /\ s[pos + 1] # NewLine
           THEN Run(prog, pc + 1, pos + RuneWidth(s, pos), caps, s, seen)
           ELSE Failed(seen)
      [] ins.op = "save" ->
           Run(prog, pc + 1, pos, [caps EXCEPT ![ins.n] = pos], s, seen)
      [] ins.op = "split" ->
           LET r == Run(prog, ins.x, pos, caps, s, seen)
           IN IF r.ok THEN r ELSE Run(prog, ins.y, pos, caps, s, r.visited)

\* the unanchored search: the match at the leftmost start position, the
\* start moving on by one character of the text (the pairs visited from a
\* start position that failed cannot lead to a match from a later one
\* either, so each start begins with none)
RECURSIVE SearchFrom(_, _, _)
SearchFrom(re, s, start) ==
    IF start > Len(s) THEN NoMatch
    ELSE LET r == Run(re.prog, 1, start,
                      [n \in 2..(2 * re.ncap + 1) |-> -1] @@ (0 :> start), s, {})
         IN IF r.ok THEN r
            ELSE IF start = Len(s) THEN NoMatch
            ELSE SearchFrom(re, s, start + RuneWidth(s, start))

\* regexp.MatchString
MatchString(re, s) == SearchFrom(re, s, 0).ok

\* regexp.FindStringSubmatch: <<>> (nil) when there is no match, else the
\* text of the whole match followed by the text of each group ("" for a
\* group that took no part)
FindStringSubmatch(re, s) ==
    LET r == SearchFrom(re, s, 0)
    IN IF ~r.ok THEN <<>>
       ELSE <<SubSeq(s, r.caps[0] + 1, r.end)>> \o
            [g \in 1..re.ncap |->
                IF r.caps[2 * g] = -1 \/ r.caps[2 * g + 1] = -1 THEN <<>>
                ELSE SubSeq(s, r.caps[2 * g] + 1, r.caps[2 * g + 1])]

(***************************************************************************)
(* routes.go 182-188: r.URL.Query(), Values.Add and Values.Encode of       *)
(* package net/url.  Query values are a function from keys to the sequence *)
(* of their values; the query string is text.                              *)
(***************************************************************************)
\* a < b for strings, as Go compares them
RECURSIVE StrLess(_, _)
StrLess(a, b) ==
    IF Len(b) = 0 THEN FALSE
    ELSE IF Len(a) = 0 THEN TRUE
    ELSE IF a[1] = b[1] THEN StrLess(Tail(a), Tail(b))
    ELSE Ord(a[1]) < Ord(b[1])

\* url.QueryEscape leaves letters, digits, "-", "_", "." and "~", writes a
\* space as "+" and every other byte as "%XX"
Unreserved ==
    {ByteOrder[n + 1] : n \in (48..57) \cup (65..90) \cup (97..122)}
    \cup {"-", "_", ".", "~"}

HexDigits ==
    <<"0", "1", "2", "3", "4", "5", "6", "7", "8", "9", "A", "B", "C", "D", "E", "F">>

\* the two upper-case hexadecimal digits of a byte
HexCode(c) == <<HexDigits[(Ord(c) \div 16) + 1], HexDigits[(Ord(c) % 16) + 1]>>

RECURSIVE QueryEscape(_)
QueryEscape(s) ==
    IF Len(s) = 0 THEN <<>>
    ELSE (IF s[1] \in Unreserved THEN <<s[1]>>
          ELSE IF s[1] = " " THEN <<"+">>
          ELSE <<"%">> \o HexCode(s[1])) \o QueryEscape(Tail(s))

\* a hexadecimal digit in upper case, "" for any other character
HexUpper(c) ==
    CASE c \in {"0", "1", "2", "3", "4", "5", "6", "7", "8", "9",
                "A", "B", "C", "D", "E", "F"} -> c
      [] c = "a" -> "A"
      [] c = "b" -> "B"
      [] c = "c" -> "C"
      [] c = "d" -> "D"
      [] c = "e" -> "E"
      [] c = "f" -> "F"
      [] OTHER -> ""

\* the value of a hexadecimal digit
Unhex(c) == (CHOOSE d \in 1..16 : HexDigits[d] = HexUpper(c)) - 1

\* url.QueryUnescape: ok is err == nil; "%XX" is the byte XX, "+" a space,
\* and a "%" that two hexadecimal digits do not follow is an error
RECURSIVE QueryUnescape(_)
QueryUnescape(s) ==
    IF Len(s) = 0 THEN [ok |-> TRUE, text |-> <<>>]
    ELSE IF s[1] = "%"
    THEN IF Len(s) < 3 \/ HexUpper(s[2]) = "" \/ HexUpper(s[3]) = ""
         THEN [ok |-> FALSE, text |-> <<>>]
         ELSE LET rest == QueryUnescape(SubSeq(s, 4, Len(s)))
              IN IF ~rest.ok THEN rest
                 ELSE [rest EXCEPT !.text =
                          <<ByteOrder[16 * Unhex(s[2]) + Unhex(s[3]) + 1]>> \o @]
    ELSE LET rest == QueryUnescape(Tail(s))
         IN IF ~rest.ok THEN rest
            ELSE [rest EXCEPT !.text = <<IF s[1] = "+" THEN " " ELSE s[1]>> \o @]

\* a mutant of ValuesAdd: Values.Set(key, value), which replaces the values
ValuesSet(values, key, value) == (key :> <<value>>) @@ values

\* Values.Add(key, value)
ValuesAdd(values, key, value) ==
    IF key \in DOMAIN values
    THEN [values EXCEPT ![key] = Append(@, value)]
    ELSE (key :> <<value>>) @@ values

\* url.ParseQuery: the pairs between "&", each cut at its first "="; a pair
\* that holds a ";", an empty pair and a pair with a bad escape are skipped
RECURSIVE ParsePairs(_, _)
ParsePairs(pairs, values) ==
    IF Len(pairs) = 0 THEN values
    ELSE LET pair == pairs[1]
             eq == Index(pair, "=")
             key == QueryUnescape(IF eq = -1 THEN pair ELSE SubSeq(pair, 1, eq))
             value == QueryUnescape(IF eq = -1 THEN <<>>
                                    ELSE SubSeq(pair, eq + 2, Len(pair)))
         IN IF Index(pair, ";") # -1 \/ Len(pair) = 0 \/ ~key.ok \/ ~value.ok
            THEN ParsePairs(Tail(pairs), values)
            ELSE ParsePairs(Tail(pairs), ValuesAdd(values, key.text, value.text))

\* r.URL.Query()
ParseQuery(rawQuery) == ParsePairs(Split(rawQuery, "&"), <<>>)

\* the keys of values in increasing order
RECURSIVE SortedKeys(_)
SortedKeys(keys) ==
    IF keys = {} THEN <<>>
    ELSE LET least == CHOOSE k \in keys : \A k2 \in keys \ {k} : StrLess(k, k2)
         IN <<least>> \o SortedKeys(keys \ {least})

\* the "key=value" pairs of one key, in the order of its values
EncodeKey(key, vs) ==
    [i \in 1..Len(vs) |-> QueryEscape(key) \o <<"=">> \o QueryEscape(vs[i])]

RECURSIVE EncodeKeys(_, _)
EncodeKeys(keys, values) ==
    IF Len(keys) = 0 THEN <<>>
    ELSE EncodeKey(keys[1], values[keys[1]]) \o EncodeKeys(Tail(keys), values)

\* Values.Encode(): the pairs sorted by key, joined by "&"
Encode(values) == Join(EncodeKeys(SortedKeys(DOMAIN values), values), <<"&">>)

(***************************************************************************)
(* routes.go 144-145: filepath.Clean and filepath.Join (slash-separated    *)
(* paths).                                                                 *)
(***************************************************************************)
\* the elements Clean keeps: "" and "." are dropped, ".." removes the
\* element before it, is dropped at the root and kept at the start of a
\* relative path
RECURSIVE CleanParts(_, _, _)
CleanParts(parts, out, rooted) ==
    IF Len(parts) = 0 THEN out
    ELSE LET part == parts[1] IN
         IF part = <<>> \/ part = <<".">>
         THEN CleanParts(Tail(parts), out, rooted)
         ELSE IF part = <<".", ".">>
         THEN IF Len(out) > 0 /\ out[Len(out)] # <<".", ".">>
              THEN CleanParts(Tail(parts), SubSeq(out, 1, Len(out) - 1), rooted)
              ELSE IF rooted
              THEN CleanParts(Tail(parts), out, rooted)
              ELSE CleanParts(Tail(parts), Append(out, part), rooted)
         ELSE CleanParts(Tail(parts), Append(out, part), rooted)

\* filepath.Clean(path)
Clean(path) ==
    IF Len(path) = 0 THEN <<".">>
    ELSE LET rooted == path[1] = "/"
             kept == Join(CleanParts(Split(path, "/"), <<>>, rooted), <<"/">>)
         IN IF rooted THEN <<"/">> \o kept
            ELSE IF Len(kept) = 0 THEN <<".">> ELSE kept

\* filepath.Join(dir, path)
FilepathJoin(dir, path) ==
    IF Len(dir) = 0
    THEN IF Len(path) = 0 THEN <<>> ELSE Clean(path)
    ELSE Clean(dir \o <<"/">> \o path)

(***************************************************************************)
(* routes.go 261-291: responseWriter, and the http.ResponseWriter it       *)
(* wraps.  resp.w holds the wrapper's fields.  resp.sink is the underlying *)
(* writer as net/http specifies it: hdr is the header map Header()         *)
(* returns; the first WriteHeader (or the first Write, as WriteHeader(200))*)
(* sends the status with the headers of that moment (sentHdr), and         *)
(* changes made to hdr afterwards are not sent.  A Write sends nothing     *)
(* when the status sent allows no body (http.ErrBodyNotAllowed), when it   *)
(* takes the bytes counted so far past the Content-Length that was sent    *)
(* (http.ErrContentLength; the refused bytes stay counted), or when the    *)
(* request is a HEAD request (the bytes are accepted and dropped).         *)
(***************************************************************************)
Digits == <<"0", "1", "2", "3", "4", "5", "6", "7", "8", "9">>

\* strconv.Itoa for n >= 0
RECURSIVE Itoa(_)
Itoa(n) ==
    IF n < 10 THEN <<Digits[n + 1]>>
    ELSE Itoa(n \div 10) \o <<Digits[(n % 10) + 1]>>

\* the number a Content-Length value denotes
RECURSIVE Atoi(_)
Atoi(s) ==
    IF Len(s) = 0 THEN 0
    ELSE 10 * Atoi(SubSeq(s, 1, Len(s) - 1))
         + ((CHOOSE d \in 1..10 : Digits[d] = s[Len(s)]) - 1)

\* Header().Set(name, value)
HeaderSet(hdr, name, value) == (name :> value) @@ hdr

\* the underlying writer before any call: head says the request is a HEAD
\* request, offered counts the bytes handed to its Write, body those of them
\* it sent
NewSink ==
    [hdr |-> <<>>, wroteHeader |-> FALSE, sentHdr |-> <<>>, sentStatus |-> 0,
     declared |-> -1, offered |-> 0, body |-> 0, head |-> FALSE]

\* routes.go 157: &responseWriter{writer: rw}
NewResponse == [w |-> [started |-> FALSE, size |-> 0, status |-> 0], sink |-> NewSink]

\* routes.go 152, 157: the wrapper around the writer the server made for a
\* request of this method
ResponseFor(method) == [NewResponse EXCEPT !.sink.head = (method = HEAD)]

\* the status is an informational one, which does not end the header phase
Informational(code) == code \in 100..199 /\ code # 101

\* a response of this status may carry a body
BodyAllowed(code) == ~(code \in 100..199 \/ code = 204 \/ code = 304)

\* http.ResponseWriter.WriteHeader(code) of the underlying writer
SinkWriteHeader(sink, code) ==
    IF sink.wroteHeader \/ Informational(code) THEN sink
    ELSE [sink EXCEPT !.wroteHeader = TRUE,
                      !.sentHdr = sink.hdr,
                      !.sentStatus = code,
                      !.declared = IF "Content-Length" \in DOMAIN sink.hdr
                                   THEN Atoi(sink.hdr["Content-Length"]) ELSE -1]

\* http.ResponseWriter.Write(p) of the underlying writer, n = len(p)
SinkWrite(sink, n) ==
    LET sent == [SinkWriteHeader(sink, 200) EXCEPT !.offered = @ + n]
    IN IF ~BodyAllowed(sent.sentStatus) THEN sent
       ELSE IF sent.declared # -1 /\ sent.offered > sent.declared THEN sent
       ELSE IF sent.head THEN sent
       ELSE [sent EXCEPT !.body = @ + n]

\* the two header fields both methods of the wrapper set
StampHeaders(hdr, length) ==
    HeaderSet(HeaderSet(hdr, "Content-Length", length),
              "Access-Control-Allow-Origin", DefaultAccessControlOrigin)

\* routes.go 275-281: responseWriter.Write(p), n = len(p)
Write(resp, n) ==
    LET stamped == [resp.sink EXCEPT !.hdr = StampHeaders(@, Itoa(n))]
    IN [w |-> [resp.w EXCEPT !.size = n, !.started = TRUE],
        sink |-> SinkWrite(stamped, n)]

\* a mutant of WriteHeader: the started flag is not set
WriteHeaderNotStarted(resp, code) ==
    LET sent == SinkWriteHeader(resp.sink, code)
    IN [w |-> [resp.w EXCEPT !.status = code],
        sink |-> [sent EXCEPT !.hdr = StampHeaders(@, <<"0">>)]]

\* routes.go 285-291: responseWriter.WriteHeader(code)
WriteHeader(resp, code) ==
    LET sent == SinkWriteHeader(resp.sink, code)
    IN [w |-> [resp.w EXCEPT !.status = code, !.started = TRUE],
        sink |-> [sent EXCEPT !.hdr = StampHeaders(@, <<"0">>)]]

(***************************************************************************)
(* Handlers.  A handler registered through AddRoute is opaque: what it     *)
(* does to the response is a sequence of calls on the wrapper, chosen when *)
(* it is invoked: Write(p), WriteHeader(code) and Header().Set(name,       *)
(* value), the value a string (value) or a computed text (text).  The      *)
(* handlers of the repository are the one Static installs (routes.go       *)
(* 143-147, which ends in http.ServeFile) and the helpers ServeJson,       *)
(* ServeXml and ServeFormatted (routes.go 302-341), which a user handler   *)
(* calls with the wrapper it was given.                                    *)
(***************************************************************************)
CallWrite(n) ==
    [call |-> "Write", arg |-> n, name |-> "", value |-> "", text |-> <<>>]
CallWriteHeader(code) ==
    [call |-> "WriteHeader", arg |-> code, name |-> "", value |-> "", text |-> <<>>]
CallSet(name, value) ==
    [call |-> "Set", arg |-> 0, name |-> name, value |-> value, text |-> <<>>]
CallSetText(name, text) ==
    [call |-> "SetText", arg |-> 0, name |-> name, value |-> "", text |-> text]

\* routes.go 269-271: Header() is the header map of the underlying writer
SetHeader(resp, name, value) == [resp EXCEPT !.sink.hdr = HeaderSet(@, name, value)]

\* one call of a handler on the wrapper
ApplyCall(resp, c) ==
    CASE c.call = "Write" -> Write(resp, c.arg)
      [] c.call = "WriteHeader" -> WriteHeader(resp, c.arg)
      [] c.call = "Set" -> SetHeader(resp, c.name, c.value)
      [] c.call = "SetText" -> SetHeader(resp, c.name, c.text)

RECURSIVE ApplyCalls(_, _)
ApplyCalls(resp, calls) ==
    IF Len(calls) = 0 THEN resp
    ELSE ApplyCalls(ApplyCall(resp, calls[1]), Tail(calls))

\* http.Error(w, msg, code), n = len(msg) + 1 (Fprintln adds a newline)
HttpError(code, n) ==
    <<CallSet("Content-Type", "text/plain; charset=utf-8"),
      CallSet("X-Content-Type-Options", "nosniff"),
      CallWriteHeader(code),
      CallWrite(n)>>

\* routes.go 33-35
applicationJson == "application/json"
applicationXml == "applicatoin/xml"
textXml == "text/xml"

\* the resources v the helpers are given: one that both encoders take (its
\* JSON form has 2 bytes, as "{}", its XML form 12), and one that both refuse
\* (as a channel: "json: unsupported type: chan int" has 32 characters,
\* "xml: unsupported type: chan int" 31); jsonErr and xmlErr are the lengths
\* of err.Error(), 0 when err is nil
Resources ==
    {[jsonLen |-> 2, jsonErr |-> 0, xmlLen |-> 12, xmlErr |-> 0],
     [jsonLen |-> 0, jsonErr |-> 32, xmlLen |-> 0, xmlErr |-> 31]}

\* routes.go 302-311
ServeJson(v) ==
    IF v.jsonErr # 0 THEN HttpError(500, v.jsonErr + 1)
    ELSE <<CallWrite(v.jsonLen), CallSet("Content-Type", applicationJson)>>

\* routes.go 315-323
ServeXml(v) ==
    IF v.xmlErr # 0 THEN HttpError(500, v.xmlErr + 1)
    ELSE <<CallWrite(v.xmlLen), CallSet("Content-Type", "text/xml; charset=utf-8")>>

\* routes.go 329-341: accept is r.Header.Get("Accept")
ServeFormatted(accept, v) ==
    CASE accept = applicationJson -> ServeJson(v)
      [] accept \in {applicationXml, textXml} -> ServeXml(v)
      [] OTHER -> ServeJson(v)

\* what a user handler may do: nothing, a body, a status, a status and a
\* body, a body after a status that allows none, a body in two writes, or a
\* call of one of the helpers
UserBehaviours(r) ==
    {<<>>,
     <<CallWrite(2)>>,
     <<CallWriteHeader(500)>>,
     <<CallWriteHeader(201), CallWrite(12)>>,
     <<CallWriteHeader(204), CallWrite(2)>>,
     <<CallWrite(1), CallWrite(2)>>}
    \cup {ServeJson(v) : v \in Resources}
    \cup {ServeXml(v) : v \in Resources}
    \cup {ServeFormatted(r.accept, v) : v \in Resources}

\* net/http containsDotDot: an element of the path, split at "/" and "\", is ".."
ContainsDotDot(path) ==
    \E i \in 1..Len(Split(path, "/")) :
        LET part == Split(path, "/")[i]
        IN \E k \in 1..Len(Split(part, "\\")) : Split(part, "\\")[k] = <<".", ".">>

\* the sizes of the files in the served directories
FileSizes == {0, 3, CopyBuffer + 3}

\* io.Copy hands the content to Write in pieces of at most CopyBuffer bytes
RECURSIVE CopyWrites(_)
CopyWrites(n) ==
    IF n = 0 THEN <<>>
    ELSE IF n <= CopyBuffer THEN <<CallWrite(n)>>
    ELSE <<CallWrite(CopyBuffer)>> \o CopyWrites(n - CopyBuffer)

\* the modification times of what the served directories hold: a time that
\* is sent, and the zero time or the Unix epoch
ModTimes == {"<mtime>", ""}

\* net/http setLastModified(w, modtime): no header for the zero time and the
\* Unix epoch
SetLastModified(mtime) ==
    IF mtime = "" THEN <<>> ELSE <<CallSet("Last-Modified", mtime)>>

\* net/http serveContent for a file of n bytes, this content type and this
\* modification time
FileReplyAs(ctype, n, mtime) ==
    SetLastModified(mtime)
    \o <<CallSet("Content-Type", ctype),
         CallSet("Accept-Ranges", "bytes"),
         CallSetText("Content-Length", Itoa(n)),
         CallWriteHeader(200)>> \o CopyWrites(n)

\* a file whose name has no known extension and whose content is text
FileReply(n, mtime) == FileReplyAs("text/plain; charset=utf-8", n, mtime)

\* the file index.html of a directory
IndexReply(n, mtime) == FileReplyAs("text/html; charset=utf-8", n, mtime)

\* one Write for every length of lens
RECURSIVE Writes(_)
Writes(lens) ==
    IF Len(lens) = 0 THEN <<>> ELSE <<CallWrite(lens[1])>> \o Writes(Tail(lens))

\* the lines net/http dirList prints before the entries, by their lengths:
\* "<pre>", preceded in later releases by "<!doctype html>" and the viewport
\* "<meta ...>" line
ListingHeads == {<<6>>, <<16, 52, 6>>}

\* the entries of a listed directory, by the lengths of their lines: none,
\* or the one file "a" (<a href="a">a</a>)
ListingEntries == {<<>>, <<18>>}

\* net/http dirList for a directory of this modification time: each line is
\* printed with a Write of its own, "</pre>" last
DirList(head, entries, mtime) ==
    SetLastModified(mtime)
    \o <<CallSet("Content-Type", "text/html; charset=utf-8")>>
    \o Writes(head \o entries \o <<7>>)

\* net/http dirList when the directory cannot be read
DirListError(mtime) == SetLastModified(mtime) \o HttpError(500, 24)

\* net/http localRedirect(w, r, newPath)
LocalRedirect(r, newPath) ==
    <<CallSetText("Location",
                  newPath \o (IF r.rawQuery # <<>> THEN <<"?">> \o r.rawQuery ELSE <<>>)),
      CallWriteHeader(301)>>

\* path.Base of a request path that does not end in "/"
Base(path) ==
    IF path = <<>> THEN <<".">> ELSE Split(path, "/")[Len(Split(path, "/"))]

\* the request path names a directory as such: it ends in "/"
EndsInSlash(path) == path # <<>> /\ path[Len(path)] = "/"

\* routes.go 146: what http.ServeFile(w, r, path) may do for request r.  A
\* request path with a ".." element is rejected, one that ends in
\* "/index.html" is redirected; otherwise the reply depends on what the
\* file system holds at path: a file, nothing (404), something that may not
\* be read (403) or cannot be opened for another reason (500), or a
\* directory.  A directory is answered with a redirect to the path with "/"
\* added when the request path does not end in "/", and else with its
\* index.html or with a listing; Last-Modified is set from the modification
\* time of the file or directory.  The requests carry the header fields the
\* repository reads and no others: without Range and conditional fields a
\* file is sent whole with status 200.
ServeFileBehaviours(r) ==
    IF ContainsDotDot(r.path) THEN {HttpError(400, 17)}
    ELSE IF HasSuffix(r.path, <<"/", "i", "n", "d", "e", "x", ".", "h", "t", "m", "l">>)
    THEN {LocalRedirect(r, <<".", "/">>)}
    ELSE {FileReply(n, t) : n \in FileSizes, t \in ModTimes}
         \cup {HttpError(404, 19), HttpError(403, 14), HttpError(500, 26)}
         \cup (IF EndsInSlash(r.path)
               THEN {IndexReply(n, t) : n \in FileSizes, t \in ModTimes}
                    \cup {DirList(h, e, t) : h \in ListingHeads, e \in ListingEntries,
                                             t \in ModTimes}
                    \cup {DirListError(t) : t \in ModTimes}
               ELSE {LocalRedirect(r, Base(r.path) \o <<"/">>)})

UserHandler == [kind |-> "user", dir |-> <<>>]
StaticHandler(dir) == [kind |-> "static", dir |-> dir]

\* a mutant of StaticFile: the request path is joined without being cleaned
StaticFileUncleaned(dir, urlPath) == FilepathJoin(dir, urlPath)

\* routes.go 144-145: the path the Static handler hands to http.ServeFile
StaticFile(dir, urlPath) == FilepathJoin(dir, Clean(urlPath))

(***************************************************************************)
(* The state: the RouteMux, and the request ServeHTTP is working on.       *)
(***************************************************************************)
VARIABLES
    routes,     \* RouteMux.routes (routes.go 51)
    Logging,    \* RouteMux.Logging (routes.go 52)
    panicked,   \* AddRoute has panicked (routes.go 94)
    pc,         \* the position of ServeHTTP: idle (no request), scan,
                \* inject, invoke, handler, options, notfound, log, done
    scanAt,     \* the position of the loop over this.routes (from 1)
    todo,       \* the calls the running handler has still to make on w
    req,        \* the request r: method, URL.Path, URL.RawQuery
    rawQuery0,  \* r.URL.RawQuery as the request arrived
    resp,       \* the responseWriter w and the writer it wraps
    invoked,    \* the indexes (from 1) of the routes whose handler has run
    seen,       \* r.URL.Query() as the invoked handler reads it
    captured,   \* matches[1:] of the route that was invoked
    served,     \* the file paths handed to http.ServeFile
    logged,     \* the lines written to Logger: status and size
    registered, \* the patterns AddRoute was given, in order (kept by the
                \* model only: a Route holds the rewritten pattern, and the
                \* pattern of a call that panicked has no Route)
    inflight    \* the calls of ServeHTTP that run concurrently, each with its
                \* own r, w and local variables

vars ==
    <<routes, Logging, panicked, pc, scanAt, todo, req, rawQuery0, resp,
      invoked, seen, captured, served, logged, registered, inflight>>

NoRequest == [method |-> "", path |-> <<>>, rawQuery |-> <<>>, accept |-> ""]

\* the goroutines the server runs ServeHTTP in
Requests == {"r1", "r2"}

\* a goroutine that is not in ServeHTTP.  Of its local variables, at is the
\* position of the loop of ServeHTTP, route the Route the loop selected (none
\* or one), todo the calls its handler has still to make, oat the position
\* of the loop of optionsRequest and options the list that loop builds;
\* arrived is the request as it came in and calls the calls its handler
\* chose to make, both kept by the model only
IdleRequest ==
    [pc |-> "idle", req |-> NoRequest, arrived |-> NoRequest, resp |-> NewResponse,
     at |-> 1, route |-> <<>>, todo |-> <<>>, oat |-> 1, options |-> <<>>,
     invoked |-> <<>>, calls |-> <<>>, logged |-> <<>>]

\* no concurrent call of ServeHTTP is running
NoneInFlight == \A k \in Requests : inflight[k].pc = "idle"

(***************************************************************************)
(* routes.go 64-109: AddRoute, and the registrants built on it.            *)
(***************************************************************************)
\* lines 98-103: the Route AddRoute creates
NewRoute(method, pattern, handler) ==
    LET rewritten == RewritePattern(pattern)
        regex == Compile(rewritten)
    IN [method |-> method,
        regex |-> [expr |-> rewritten, prog |-> regex.prog, ncap |-> regex.ncap],
        params |-> ParamNames(Split(pattern, "/")),
        handler |-> handler]

\* a mutant of Compiles: regexErr is not looked at
CompilesUnchecked(pattern) == TRUE

\* line 91-92: regexErr == nil
Compiles(pattern) == Compile(RewritePattern(pattern)).ok

\* every construct of the rewritten pattern is one the matcher models
Modelled(pattern) == Compile(RewritePattern(pattern)).modelled

\* lines 64-109
AddRoute(method, pattern, handler) ==
    /\ pc = "idle"
    /\ ~panicked
    /\ Len(routes) < MaxRoutes
    /\ Modelled(pattern)
    /\ NoneInFlight
    /\ IF Compiles(pattern)
       THEN /\ routes' = Append(routes, NewRoute(method, pattern, handler))
            /\ registered' = Append(registered, pattern)
            /\ UNCHANGED panicked
       ELSE /\ panicked' = TRUE
            /\ registered' = Append(registered, pattern)
            /\ UNCHANGED routes
    /\ UNCHANGED <<Logging, pc, scanAt, todo, req, rawQuery0, resp, invoked,
                   seen, captured, served, logged, inflight>>

\* lines 139-148
Static(pattern, dir) ==
    AddRoute(GET, pattern \o <<"(", ".", "+", ")">>, StaticHandler(dir))

(***************************************************************************)
(* routes.go 152-212: ServeHTTP.                                           *)
(***************************************************************************)
\* a mutant of RouteMatches: the length of the match is not compared with the
\* length of the path
RouteMatchesAnywhere(route, r) ==
    /\ r.method = route.method
    /\ MatchString(route.regex, r.path)

\* a mutant of RouteMatches: the method test with the condition that is
\* commented out at line 164, which lets a GET route take a HEAD request
RouteMatchesHeadAsGet(route, r) ==
    /\ r.method = route.method \/ (r.method = HEAD /\ route.method = GET)
    /\ MatchString(route.regex, r.path)
    /\ Len(FindStringSubmatch(route.regex, r.path)[1]) = Len(r.path)

\* lines 164-179: the route is not skipped for request r
RouteMatches(route, r) ==
    /\ r.method = route.method
    /\ MatchString(route.regex, r.path)
    /\ Len(FindStringSubmatch(route.regex, r.path)[1]) = Len(r.path)

\* a mutant of AfterHandler: no break, the loop goes on with the next route
AfterHandlerNoBreak(rs, i) == i + 1

\* line 193: the position the loop goes on at when the handler of route i has
\* returned: the break leaves the loop, as if past the last route
AfterHandler(rs, i) == Len(rs) + 1

\* lines 160-194: the loop from route i on; the index of the route whose
\* handler is invoked, 0 when the loop ends without one
RECURSIVE FirstMatch(_, _, _)
FirstMatch(rs, r, i) ==
    IF i > Len(rs) THEN 0
    ELSE IF ~RouteMatches(rs[i], r) THEN FirstMatch(rs, r, i + 1)
    ELSE i

\* Route.params[i] (line 184): the zero value "" for a position not in the map
ParamAt(params, i) == IF i + 1 <= Len(params) THEN params[i + 1] ELSE <<>>

\* a mutant of InjectParams: a captured value replaces the values of its key
RECURSIVE InjectParamsReplacing(_, _, _, _)
InjectParamsReplacing(values, params, matches, i) ==
    IF i >= Len(matches) THEN values
    ELSE InjectParamsReplacing(ValuesSet(values, ParamAt(params, i), matches[i + 1]),
                               params, matches, i + 1)

\* lines 183-185: the loop over matches[1:], from position i (0-based) on
RECURSIVE InjectParams(_, _, _, _)
InjectParams(values, params, matches, i) ==
    IF i >= Len(matches) THEN values
    ELSE InjectParams(ValuesAdd(values, ParamAt(params, i), matches[i + 1]),
                      params, matches, i + 1)

\* lines 182-188: r.URL.RawQuery after the injection
InjectedQuery(route, r) ==
    Encode(InjectParams(ParseQuery(r.rawQuery), route.params,
                        Tail(FindStringSubmatch(route.regex, r.path)), 0))

\* the calls a handler may make on the response when it is given request r
Behaviours(handler, r) ==
    IF handler.kind = "static" THEN ServeFileBehaviours(r) ELSE UserBehaviours(r)

\* lines 223-249: the options list before it is sorted
RECURSIVE CollectOptions(_, _, _)
CollectOptions(rs, path, i) ==
    IF i > Len(rs) THEN <<>>
    ELSE IF ~MatchString(rs[i].regex, path)
            \/ Len(FindStringSubmatch(rs[i].regex, path)[1]) # Len(path)
    THEN CollectOptions(rs, path, i + 1)
    ELSE <<rs[i].method>> \o (IF rs[i].method = GET THEN <<HEAD>> ELSE <<>>)
         \o CollectOptions(rs, path, i + 1)

\* line 251: sort.Strings, on method names
RECURSIVE InsertSorted(_, _)
InsertSorted(sorted, m) ==
    IF Len(sorted) = 0 THEN <<m>>
    ELSE IF MethodRank(m) < MethodRank(sorted[1]) THEN <<m>> \o sorted
    ELSE <<sorted[1]>> \o InsertSorted(Tail(sorted), m)

RECURSIVE SortStrings(_)
SortStrings(list) ==
    IF Len(list) = 0 THEN <<>>
    ELSE InsertSorted(SortStrings(Tail(list)), list[1])

\* a mutant of OptionsList: HEAD is not added for a GET route
OptionsListNoHead(rs, path) ==
    SortStrings(<<OPTIONS>> \o
        SelectSeq(CollectOptions(rs, path, 1), LAMBDA m : m # HEAD))

\* lines 223-251: options after the sort
OptionsList(rs, path) == SortStrings(<<OPTIONS>> \o CollectOptions(rs, path, 1))

\* line 252: strings.Join(options, ", ")
RECURSIVE JoinMethods(_)
JoinMethods(list) ==
    IF Len(list) = 0 THEN ""
    ELSE IF Len(list) = 1 THEN list[1]
    ELSE list[1] \o ", " \o JoinMethods(Tail(list))

\* lines 252-254: the sorted options are joined, the status is written and
\* Public is set
OptionsReply(rsp, options) ==
    LET optionsStr == JoinMethods(options)
        written == WriteHeader(rsp, 200)
    IN [written EXCEPT !.sink.hdr = HeaderSet(@, "Public", optionsStr)]

\* lines 221-255: optionsRequest
OptionsRequest(rs, r, rsp) == OptionsReply(rsp, OptionsList(rs, r.path))

\* line 203: http.NotFound(w, r) is http.Error(w, "404 page not found", 404),
\* which writes the message and a newline
NotFoundBodyLen == 19

NotFoundReply(rsp) == ApplyCalls(rsp, HttpError(404, NotFoundBodyLen))

(***************************************************************************)
(* The inputs the actions draw from.                                       *)
(***************************************************************************)
\* "/a", "/:x", "/:x(1+)" and "/a++", which does not compile
Templates ==
    {<<"/", "a">>,
     <<"/", ":", "x">>,
     <<"/", ":", "x", "(", "1", "+", ")">>,
     <<"/", "a", "+", "+">>}

\* the templates of the registrants modelled with one template each: "/a"
OtherTemplates == {<<"/", "a">>}

\* Static("/f/", "/s")
StaticPrefixes == {<<"/", "f", "/">>}
StaticDirs == {<<"/", "s">>}

\* the methods AddRoute is called with directly
AddRouteMethods == {OPTIONS}

RequestMethods == {GET, POST, OPTIONS, HEAD}

\* "/a", "/1", "/a/1", "/f/a", "/f/../../b"; a request path the server hands
\* to ServeHTTP starts with "/"
Paths ==
    {<<"/", "a">>,
     <<"/", "1">>,
     <<"/", "a", "/", "1">>,
     <<"/", "f", "/", "a">>,
     <<"/", "f", "/", ".", ".", "/", ".", ".", "/", "b">>}

\* the Accept header field of the requests: absent
AcceptHeaders == {""}

\* absent, "text/xml", "application/xml" and the value of applicationXml
WideAcceptHeaders == {"", textXml, "application/xml", applicationXml}

\* "" and "%3Ax=7&b=1" (the key ":x", escaped, and the key "b")
Queries ==
    {<<>>,
     <<"%", "3", "A", "x", "=", "7", "&", "b", "=", "1">>}

\* the single-route specification SpecOne draws from wider sets:
\* "/a/:x/:y", "/a+/:x", "/(a)/:x", "/:x((1)+)", "/:x(1+)/b", "/(a",
\* "/:x([0-9]+)", "/:x(()+1)", "/:x([9-0])"
WideTemplates ==
    Templates \cup
    {<<"/", ":", "x", "(", "[", "0", "-", "9", "]", "+", ")">>,
     <<"/", ":", "x", "(", "(", ")", "+", "1", ")">>,
     <<"/", ":", "x", "(", "[", "9", "-", "0", "]", ")">>,
     <<"/", "a", "/", ":", "x", "/", ":", "y">>,
     <<"/", "a", "+", "/", ":", "x">>,
     <<"/", "(", "a", ")", "/", ":", "x">>,
     <<"/", ":", "x", "(", "(", "1", ")", "+", ")">>,
     <<"/", ":", "x", "(", "1", "+", ")", "/", "b">>,
     <<"/", "(", "a">>}

\* "/f" besides "/f/"
WidePrefixes ==
    StaticPrefixes \cup {<<"/", "f">>}

\* "/s/p" and "s" besides "/s"
WideDirs ==
    StaticDirs \cup {<<"/", "s", "/", "p">>,
     <<"s">>}

\* "/a/1/b", "/a/11/b", "/a+/1", "/aa/1", "/11/b", "/f/./a", "/f/a/../b",
\* "/f/..", "/f../s", "/f/index.html", "/f/a/", the path of the one
\* two-byte character U+00E9, and "/" besides Paths
WidePaths ==
    Paths \cup
    {<<"/", "a", "/", "1", "/", "b">>,
     <<"/", "a", "/", "1", "1", "/", "b">>,
     <<"/", "a", "+", "/", "1">>,
     <<"/", "a", "a", "/", "1">>,
     <<"/", "1", "1", "/", "b">>,
     <<"/", "f", "/", ".", "/", "a">>,
     <<"/", "f", "/", "a", "/", ".", ".", "/", "b">>,
     <<"/", "f", "/", ".", ".">>,
     <<"/", "f", ".", ".", "/", "s">>,
     <<"/", "f", "/", "i", "n", "d", "e", "x", ".", "h", "t", "m", "l">>,
     <<"/", "f", "/", "a", "/">>,
     <<"/", "<C3>", "<A9>">>,
     <<"/">>}

(***************************************************************************)
(* The actions.                                                            *)
(***************************************************************************)
Init ==
    /\ routes = <<>>
    /\ Logging = TRUE
    /\ panicked = FALSE
    /\ pc = "idle"
    /\ scanAt = 1
    /\ todo = <<>>
    /\ req = NoRequest
    /\ rawQuery0 = <<>>
    /\ resp = NewResponse
    /\ invoked = <<>>
    /\ seen = <<>>
    /\ captured = <<>>
    /\ served = <<>>
    /\ logged = <<>>
    /\ registered = <<>>
    /\ inflight = [k \in Requests |-> IdleRequest]

\* a direct call of AddRoute with a handler of the caller
AddRouteCall == \E m \in AddRouteMethods, t \in Templates : AddRoute(m, t, UserHandler)

\* routes.go 112-114
Get == \E t \in Templates : AddRoute(GET, t, UserHandler)

\* routes.go 117-119
Put == \E t \in OtherTemplates : AddRoute(PUT, t, UserHandler)

\* routes.go 122-124
Del == \E t \in OtherTemplates : AddRoute(DELETE, t, UserHandler)

\* routes.go 128-130
Patch == \E t \in OtherTemplates : AddRoute(PATCH, t, UserHandler)

\* routes.go 133-135
Post == \E t \in Templates : AddRoute(POST, t, UserHandler)

\* routes.go 139-148
StaticCall == \E p \in StaticPrefixes, d \in StaticDirs : Static(p, d)

\* the first registration of SpecOne
RegisterOne ==
    /\ routes = <<>>
    /\ \/ \E m \in {GET, OPTIONS}, t \in WideTemplates : AddRoute(m, t, UserHandler)
       \/ \E p \in WidePrefixes, d \in WideDirs : Static(p, d)

\* the caller sets RouteMux.Logging
SetLogging ==
    /\ pc = "idle"
    /\ ~panicked
    /\ Logging' = ~Logging
    /\ UNCHANGED <<routes, panicked, pc, scanAt, todo, req, rawQuery0, resp,
                   invoked, seen, captured, served, logged, registered, inflight>>

\* routes.go 152-157: the server calls ServeHTTP
Receive(methods, paths, queries, accepts) ==
    /\ pc = "idle"
    /\ ~panicked
    /\ \E m \in methods, p \in paths, q \in queries, a \in accepts :
          /\ req' = [method |-> m, path |-> p, rawQuery |-> q, accept |-> a]
          /\ rawQuery0' = q
          /\ resp' = ResponseFor(m)
    /\ pc' = "scan"
    /\ scanAt' = 1
    /\ UNCHANGED <<routes, Logging, panicked, todo, invoked, seen, captured,
                   served, logged, registered, inflight>>

ServeHTTP == Receive(RequestMethods, Paths, Queries, AcceptHeaders)

ServeHTTPWide == Receive(RequestMethods, WidePaths, Queries, WideAcceptHeaders)

\* routes.go 160-179: one iteration of the loop over this.routes, at the
\* route in position scanAt: the route is skipped, or it is the one selected;
\* past the last route the loop ends
Scan ==
    /\ pc = "scan"
    /\ IF scanAt > Len(routes)
       THEN /\ pc' = "options"
            /\ UNCHANGED <<scanAt, captured>>
       ELSE IF ~RouteMatches(routes[scanAt], req)
       THEN /\ scanAt' = scanAt + 1
            /\ UNCHANGED <<pc, captured>>
       ELSE /\ pc' = "inject"
            /\ captured' = Tail(FindStringSubmatch(routes[scanAt].regex, req.path))
            /\ UNCHANGED scanAt
    /\ UNCHANGED <<routes, Logging, panicked, todo, req, rawQuery0, resp, invoked,
                   seen, served, logged, registered, inflight>>

\* routes.go 182-188: the captured values are added to the query values and
\* r.URL.RawQuery is rewritten
Inject ==
    /\ pc = "inject"
    /\ req' = [req EXCEPT !.rawQuery = InjectedQuery(routes[scanAt], req)]
    /\ pc' = "invoke"
    /\ UNCHANGED <<routes, Logging, panicked, scanAt, todo, rawQuery0, resp,
                   invoked, seen, captured, served, logged, registered, inflight>>

\* routes.go 191: the handler of the selected route is called with w and r;
\* the calls it is going to make on w are those of one of its behaviours
Invoke ==
    /\ pc = "invoke"
    /\ invoked' = Append(invoked, scanAt)
    /\ seen' = ParseQuery(req.rawQuery)
    /\ served' = IF routes[scanAt].handler.kind = "static"
                 THEN Append(served,
                             StaticFile(routes[scanAt].handler.dir, req.path))
                 ELSE served
    /\ \E calls \in Behaviours(routes[scanAt].handler, req) : todo' = calls
    /\ pc' = "handler"
    /\ UNCHANGED <<routes, Logging, panicked, scanAt, req, rawQuery0, resp,
                   captured, logged, registered, inflight>>

\* routes.go 191: the running handler makes its next call on w
HandlerCall ==
    /\ pc = "handler"
    /\ todo # <<>>
    /\ resp' = ApplyCall(resp, Head(todo))
    /\ todo' = Tail(todo)
    /\ UNCHANGED <<routes, Logging, panicked, pc, scanAt, req, rawQuery0,
                   invoked, seen, captured, served, logged, registered, inflight>>

\* routes.go 191-193: the handler returns and the break leaves the loop
HandlerReturn ==
    /\ pc = "handler"
    /\ todo = <<>>
    /\ scanAt' = AfterHandler(routes, scanAt)
    /\ pc' = IF AfterHandler(routes, scanAt) > Len(routes) THEN "options"
             ELSE "scan"
    /\ UNCHANGED <<routes, Logging, panicked, todo, req, rawQuery0, resp, invoked,
                   seen, captured, served, logged, registered, inflight>>

\* routes.go 196-199
Options ==
    /\ pc = "options"
    /\ resp' = IF req.method = OPTIONS THEN OptionsRequest(routes, req, resp) ELSE resp
    /\ pc' = "notfound"
    /\ UNCHANGED <<routes, Logging, panicked, scanAt, todo, req, rawQuery0,
                   invoked, seen, captured, served, logged, registered, inflight>>

\* a mutant of NotFoundFallback: no fallback reply
NoFallback(rsp) == rsp

\* routes.go 201-204
NotFoundFallback(rsp) == IF rsp.w.started = FALSE THEN NotFoundReply(rsp) ELSE rsp

NotFound ==
    /\ pc = "notfound"
    /\ resp' = NotFoundFallback(resp)
    /\ pc' = "log"
    /\ UNCHANGED <<routes, Logging, panicked, scanAt, todo, req, rawQuery0,
                   invoked, seen, captured, served, logged, registered, inflight>>

\* a mutant of Printed: the line is written whatever Logging is
PrintedAlways(on, lines, line) == Append(lines, line)

\* routes.go 207-211: what Logger has written after the step
Printed(on, lines, line) == IF on THEN Append(lines, line) ELSE lines

\* routes.go 206-211
Log ==
    /\ pc = "log"
    /\ logged' = Printed(Logging, logged,
                         [method |-> req.method, path |-> req.path,
                          status |-> resp.w.status, size |-> resp.w.size])
    /\ pc' = "done"
    /\ UNCHANGED <<routes, Logging, panicked, scanAt, todo, req, rawQuery0,
                   resp, invoked, seen, captured, served, registered, inflight>>

\* routes.go 212: ServeHTTP returns; the request and its response are gone
Return ==
    /\ pc = "done"
    /\ pc' = "idle"
    /\ scanAt' = 1
    /\ todo' = <<>>
    /\ req' = NoRequest
    /\ rawQuery0' = <<>>
    /\ resp' = NewResponse
    /\ invoked' = <<>>
    /\ seen' = <<>>
    /\ captured' = <<>>
    /\ served' = <<>>
    /\ logged' = <<>>
    /\ UNCHANGED <<routes, Logging, panicked, registered, inflight>>

(***************************************************************************)
(* ServeHTTP called concurrently: net/http runs it in one goroutine per     *)
(* request, each with its own r, rw and local variables, on the one         *)
(* RouteMux, and nothing orders the goroutines.  A step of a goroutine is   *)
(* one iteration of a loop over this.routes, one call the handler makes on  *)
(* w, or one of the stretches of ServeHTTP between them, each of which      *)
(* reads the shared data (this.routes, the Routes, Logging,                 *)
(* DefaultAccessControlOrigin) at most once.                                *)
(***************************************************************************)
\* the requests of the concurrent calls: PUT /a and OPTIONS /1, with the
\* query "%3Ax=7&b=1"
ConcurrentRequests == {<<PUT, <<"/", "a">>>>, <<OPTIONS, <<"/", "1">>>>}
ConcurrentQueries == {<<"%", "3", "A", "x", "=", "7", "&", "b", "=", "1">>}

\* what the handlers of the concurrent calls do, of the behaviours of a
\* handler: those that call Write and WriteHeader themselves
ConcurrentBehaviours(handler, r) ==
    Behaviours(handler, r)
    \cap {<<>>,
          <<CallWrite(2)>>,
          <<CallWriteHeader(500)>>,
          <<CallWriteHeader(201), CallWrite(12)>>,
          <<CallWriteHeader(204), CallWrite(2)>>,
          <<CallWrite(1), CallWrite(2)>>}

\* a mutant of RoutesAfterScan: the iteration that selects a route moves it
\* to the front of the table
RoutesMovedToFront(rs, i) ==
    <<rs[i]>> \o SubSeq(rs, 1, i - 1) \o SubSeq(rs, i + 1, Len(rs))

\* routes.go 160-179: this.routes after the iteration that selected route i;
\* the loop ranges over the table and assigns nothing to it or to a Route
RoutesAfterScan(rs, i) == rs

\* what the steps of the goroutines leave alone: the request of the
\* sequential model
SequentialVars ==
    <<pc, scanAt, todo, req, rawQuery0, resp, invoked, seen, captured, served,
      logged>>

\* routes.go 152-157: the server calls ServeHTTP in goroutine k
Serve(k) ==
    /\ inflight[k].pc = "idle"
    /\ ~panicked
    /\ \E mp \in ConcurrentRequests, q \in ConcurrentQueries :
          LET r == [method |-> mp[1], path |-> mp[2], rawQuery |-> q, accept |-> ""]
          IN inflight' = [inflight EXCEPT ![k] =
                 [IdleRequest EXCEPT !.pc = "scan", !.req = r, !.arrived = r,
                                     !.resp = ResponseFor(mp[1])]]
    /\ UNCHANGED <<routes, Logging, panicked, registered, SequentialVars>>

\* routes.go 160-179 in goroutine k: one iteration of the loop, on the route
\* this.routes holds in position at when the step is taken
ServeScan(k) ==
    /\ inflight[k].pc = "scan"
    /\ LET me == inflight[k] IN
       IF me.at > Len(routes)
       THEN /\ inflight' = [inflight EXCEPT ![k].pc = "options"]
            /\ UNCHANGED routes
       ELSE IF ~RouteMatches(routes[me.at], me.req)
       THEN /\ inflight' = [inflight EXCEPT ![k].at = @ + 1]
            /\ UNCHANGED routes
       ELSE /\ inflight' = [inflight EXCEPT ![k].pc = "inject",
                                            ![k].route = <<routes[me.at]>>]
            /\ routes' = RoutesAfterScan(routes, me.at)
    /\ UNCHANGED <<Logging, panicked, registered, SequentialVars>>

\* routes.go 182-188 in goroutine k: the query of its own r is rewritten
\* from the Route the loop variable holds
ServeInject(k) ==
    /\ inflight[k].pc = "inject"
    /\ inflight' = [inflight EXCEPT
          ![k].pc = "invoke",
          ![k].req.rawQuery = InjectedQuery(inflight[k].route[1], inflight[k].req)]
    /\ UNCHANGED <<routes, Logging, panicked, registered, SequentialVars>>

\* routes.go 191 in goroutine k: the handler is called
ServeInvoke(k) ==
    /\ inflight[k].pc = "invoke"
    /\ LET me == inflight[k] IN
       \E calls \in ConcurrentBehaviours(me.route[1].handler, me.req) :
          inflight' = [inflight EXCEPT ![k].pc = "handler",
                                       ![k].invoked = Append(@, me.at),
                                       ![k].calls = calls,
                                       ![k].todo = calls]
    /\ UNCHANGED <<routes, Logging, panicked, registered, SequentialVars>>

\* routes.go 191 in goroutine k: the handler makes its next call on w
ServeHandlerCall(k) ==
    /\ inflight[k].pc = "handler"
    /\ inflight[k].todo # <<>>
    /\ inflight' = [inflight EXCEPT
          ![k].resp = ApplyCall(@, Head(inflight[k].todo)),
          ![k].todo = Tail(@)]
    /\ UNCHANGED <<routes, Logging, panicked, registered, SequentialVars>>

\* routes.go 191-193 in goroutine k: the handler returns, the loop is left
ServeHandlerReturn(k) ==
    /\ inflight[k].pc = "handler"
    /\ inflight[k].todo = <<>>
    /\ LET next == AfterHandler(routes, inflight[k].at) IN
       inflight' = [inflight EXCEPT
          ![k].at = next,
          ![k].pc = IF next > Len(routes) THEN "options" ELSE "scan"]
    /\ UNCHANGED <<routes, Logging, panicked, registered, SequentialVars>>

\* routes.go 196-199 and 223-225 in goroutine k: the test of the method and,
\* for OPTIONS, the start of optionsRequest
ServeOptions(k) ==
    /\ inflight[k].pc = "options"
    /\ inflight' = IF inflight[k].req.method = OPTIONS
                   THEN [inflight EXCEPT ![k].pc = "collect",
                                         ![k].oat = 1,
                                         ![k].options = <<OPTIONS>>]
                   ELSE [inflight EXCEPT ![k].pc = "notfound"]
    /\ UNCHANGED <<routes, Logging, panicked, registered, SequentialVars>>

\* routes.go 229-254 in goroutine k: one iteration of the loop of
\* optionsRequest, on the route this.routes holds in position oat when the
\* step is taken; past the last route the list is sorted and sent
ServeCollect(k) ==
    /\ inflight[k].pc = "collect"
    /\ LET me == inflight[k] IN
       inflight' =
          IF me.oat > Len(routes)
          THEN [inflight EXCEPT ![k].pc = "notfound",
                                ![k].resp = OptionsReply(@, SortStrings(me.options))]
          ELSE [inflight EXCEPT
                   ![k].oat = @ + 1,
                   ![k].options = @ \o CollectOptions(<<routes[me.oat]>>, me.req.path, 1)]
    /\ UNCHANGED <<routes, Logging, panicked, registered, SequentialVars>>

\* routes.go 201-204 in goroutine k
ServeNotFound(k) ==
    /\ inflight[k].pc = "notfound"
    /\ inflight' = [inflight EXCEPT ![k].pc = "log",
                                    ![k].resp = NotFoundFallback(@)]
    /\ UNCHANGED <<routes, Logging, panicked, registered, SequentialVars>>

\* routes.go 206-211 in goroutine k
ServeLog(k) ==
    /\ inflight[k].pc = "log"
    /\ LET me == inflight[k]
       IN inflight' = [inflight EXCEPT
             ![k].pc = "done",
             ![k].logged = Printed(Logging, @,
                               [method |-> me.req.method, path |-> me.req.path,
                                status |-> me.resp.w.status,
                                size |-> me.resp.w.size])]
    /\ UNCHANGED <<routes, Logging, panicked, registered, SequentialVars>>

\* routes.go 212 in goroutine k
ServeReturn(k) ==
    /\ inflight[k].pc = "done"
    /\ inflight' = [inflight EXCEPT ![k] = IdleRequest]
    /\ UNCHANGED <<routes, Logging, panicked, registered, SequentialVars>>

Next ==
    \/ AddRouteCall
    \/ Get
    \/ Put
    \/ Del
    \/ Patch
    \/ Post
    \/ StaticCall
    \/ SetLogging
    \/ ServeHTTP
    \/ Scan
    \/ Inject
    \/ Invoke
    \/ HandlerCall
    \/ HandlerReturn
    \/ Options
    \/ NotFound
    \/ Log
    \/ Return

Spec == Init /\ [][Next]_vars

\* one route, drawn from the wider sets, and the requests of WidePaths
NextOne ==
    \/ RegisterOne
    \/ ServeHTTPWide
    \/ Scan
    \/ Inject
    \/ Invoke
    \/ HandlerCall
    \/ HandlerReturn
    \/ Options
    \/ NotFound
    \/ Log
    \/ Return

SpecOne == Init /\ [][NextOne]_vars

\* the routes are registered while no request is served, and the goroutines
\* serve their requests concurrently, a step of the one between any two
\* steps of the other
NextConcurrent ==
    \/ AddRouteCall
    \/ Put
    \/ \E k \in Requests : Serve(k)
    \/ \E k \in Requests : ServeScan(k)
    \/ \E k \in Requests : ServeInject(k)
    \/ \E k \in Requests : ServeInvoke(k)
    \/ \E k \in Requests : ServeHandlerCall(k)
    \/ \E k \in Requests : ServeHandlerReturn(k)
    \/ \E k \in Requests : ServeOptions(k)
    \/ \E k \in Requests : ServeCollect(k)
    \/ \E k \in Requests : ServeNotFound(k)
    \/ \E k \in Requests : ServeLog(k)
    \/ \E k \in Requests : ServeReturn(k)

SpecConcurrent == Init /\ [][NextConcurrent]_vars

(***************************************************************************)
(* The claims.                                                             *)
(***************************************************************************)
\* ServeHTTP is past the scan of the routes
Scanned == pc \in {"options", "notfound", "log", "done"}

\* the pattern, read as an expression for the whole path, accepts s from
\* position pos on: some way through the expression consumes all of s.  A
\* way that comes back to an instruction at the same position has consumed
\* nothing in between and is not followed again (on: the pairs on the way).
RECURSIVE AcceptsOn(_, _, _, _, _)
AcceptsOn(prog, at, pos, s, on) ==
    LET ins == prog[at]
        here == on \cup {<<at, pos>>}
    IN
    /\ <<at, pos>> \notin on
    /\ CASE ins.op = "match" -> pos = Len(s)
         [] ins.op = "char" ->
              /\ pos < Len(s)
              /\ InClass(ins.set, s, pos) # ins.neg
              /\ AcceptsOn(prog, at + 1, pos + RuneWidth(s, pos), s, here)
         [] ins.op = "any" ->
              /\ pos < Len(s)
              /\ s[pos + 1] # NewLine
              /\ AcceptsOn(prog, at + 1, pos + RuneWidth(s, pos), s, here)
         [] ins.op = "save" -> AcceptsOn(prog, at + 1, pos, s, here)
         [] ins.op = "split" ->
              AcceptsOn(prog, ins.x, pos, s, here) \/ AcceptsOn(prog, ins.y, pos, s, here)

Accepts(prog, at, pos, s) == AcceptsOn(prog, at, pos, s, {})

\* the routes of the request's method whose pattern matches the whole path
Candidates ==
    {i \in 1..Len(routes) :
        /\ routes[i].method = req.method
        /\ Accepts(routes[i].regex.prog, 1, 0, req.path)}

Earliest(S) == CHOOSE i \in S : \A k \in S : i <= k

\* C1: first-match-wins.  Once the scan is over, the handlers that have run
\* are exactly one, that of the earliest-registered route whose method is the
\* request's and whose pattern matches the whole path, or none when there is
\* no such route.
C1_FirstMatchWins ==
    Scanned =>
        invoked = IF Candidates = {} THEN <<>> ELSE <<Earliest(Candidates)>>

\* C1: a request two routes of the table match, dispatched to the first
C1_Witness ==
    /\ pc = "done"
    /\ Cardinality(Candidates) >= 2
    /\ routes[1].regex.expr # routes[2].regex.expr
    /\ invoked = <<1>>

\* the route whose handler ran, and the pattern it was registered with
InvokedRoute == routes[invoked[1]]
InvokedTemplate == registered[invoked[1]]

\* the named segments of a template, left to right
NamedSegments(template) ==
    SelectSeq(Split(template, "/"), LAMBDA part : Len(part) > 0 /\ part[1] = ":")

\* the name of a named segment: the text after ":" and before any "("
SegmentName(part) ==
    LET stops == {i \in 1..Len(part) : part[i] = "("}
        stop == IF stops = {} THEN Len(part) + 1
                ELSE CHOOSE i \in stops : \A k \in stops : i <= k
    IN SubSeq(part, 2, stop - 1)

\* the elements of a sequence
Range(f) == {f[i] : i \in DOMAIN f}

\* the capturing groups of the route's pattern are those of its named
\* segments, one each: the k-th captured value is that of the k-th segment
GroupsAreSegments(i) ==
    routes[i].regex.ncap = Len(NamedSegments(registered[i]))

\* C2: the handler finds each captured segment value in the query parameters
\* under the segment's name, the text after the ":" marker and before any
\* "(" (id=42 for :id).  Stated for the routes whose capturing groups are
\* those of their named segments, so that what fails is the key alone.
C2_KeyIsBareName ==
    (Scanned /\ invoked # <<>> /\ GroupsAreSegments(invoked[1])) =>
        \A k \in 1..Len(NamedSegments(InvokedTemplate)) :
            LET key == SegmentName(NamedSegments(InvokedTemplate)[k])
            IN key \in DOMAIN seen /\ captured[k] \in Range(seen[key])

\* no route of the table, of any method, matches the whole request path
NoRouteForPath ==
    \A i \in 1..Len(routes) : ~Accepts(routes[i].regex.prog, 1, 0, req.path)

\* C3: an OPTIONS request for a path no route matches is answered with
\* status 200 and the headers sent with that status hold Public: OPTIONS;
\* the not-found reply is not sent.
C3_OptionsMinimumSet ==
    (pc = "done" /\ req.method = OPTIONS /\ NoRouteForPath) =>
        /\ resp.sink.sentStatus = 200
        /\ "Public" \in DOMAIN resp.sink.sentHdr
        /\ resp.sink.sentHdr["Public"] = "OPTIONS"
        /\ resp.sink.body = 0

\* how often method m belongs in the Public header: once for OPTIONS, once
\* for every route of method m that matches the whole path, and for HEAD
\* once for every GET route that does
MatchingRoutes(m) ==
    {i \in 1..Len(routes) :
        routes[i].method = m /\ Accepts(routes[i].regex.prog, 1, 0, req.path)}

Occurrences(m) ==
    (IF m = OPTIONS THEN 1 ELSE 0)
    + Cardinality(MatchingRoutes(m))
    + (IF m = HEAD THEN Cardinality(MatchingRoutes(GET)) ELSE 0)

\* the methods in lexicographic order
MethodsInOrder == <<CONNECT, DELETE, GET, HEAD, OPTIONS, PATCH, POST, PUT, TRACE>>

RECURSIVE Repeat(_, _)
Repeat(m, n) == IF n = 0 THEN <<>> ELSE <<m>> \o Repeat(m, n - 1)

RECURSIVE ExpectedFrom(_)
ExpectedFrom(k) ==
    IF k > Len(MethodsInOrder) THEN <<>>
    ELSE Repeat(MethodsInOrder[k], Occurrences(MethodsInOrder[k]))
         \o ExpectedFrom(k + 1)

\* C4: after an OPTIONS request the Public header the code has set holds, in
\* lexicographic order and joined by ", ", OPTIONS, the method of every route
\* whose pattern matches the whole path whatever its method, and HEAD for a
\* matching GET route; with a single matching route, a GET route, it is
\* "GET, HEAD, OPTIONS".
C4_OptionsAggregation ==
    (pc = "done" /\ req.method = OPTIONS) =>
        /\ "Public" \in DOMAIN resp.sink.hdr
        /\ resp.sink.hdr["Public"] = JoinMethods(ExpectedFrom(1))
        /\ (\A m \in Methods \ {GET} : MatchingRoutes(m) = {})
           /\ Cardinality(MatchingRoutes(GET)) = 1
           => resp.sink.hdr["Public"] = "GET, HEAD, OPTIONS"

\* C4: OPTIONS requests answered with the header of a GET-only path, and of
\* a path with a POST and a DELETE route
C4_Witness ==
    /\ pc = "done"
    /\ req.method = OPTIONS
    /\ Len(routes) = 2
    /\ resp.sink.hdr["Public"] = "DELETE, OPTIONS, POST"

\* C5: when ServeHTTP completes the wrapper's started flag is set, whatever
\* the handler did, and a request (not OPTIONS) that no route of its method
\* matches has been answered with status 404.
C5_NeverUnresolved ==
    pc = "done" =>
        /\ resp.w.started
        /\ (Candidates = {} /\ req.method # OPTIONS) =>
              resp.sink.sentStatus = 404 /\ resp.w.status = 404

\* C5: a request whose handler ran and wrote nothing, answered by the fallback
C5_Witness ==
    /\ pc = "done"
    /\ invoked # <<>>
    /\ InvokedRoute.handler.kind = "user"
    /\ resp.w.started
    /\ resp.sink.sentStatus = 404
    /\ resp.sink.body = NotFoundBodyLen

\* the characters with a meaning in a regular expression (those
\* regexp.QuoteMeta escapes)
RegexMeta == {"\\", ".", "+", "*", "?", "(", ")", "|", "[", "]", "{", "}", "^", "$"}

IsNamed(part) == Len(part) > 0 /\ part[1] = ":"

\* no named segment of the template carries an inline override
NoOverrides(template) ==
    \A k \in 1..Len(NamedSegments(template)) :
        \A i \in 1..Len(NamedSegments(template)[k]) : NamedSegments(template)[k][i] # "("

\* the names of the named segments differ
DistinctNames(template) ==
    \A k, l \in 1..Len(NamedSegments(template)) :
        k # l => SegmentName(NamedSegments(template)[k])
                 # SegmentName(NamedSegments(template)[l])

\* no literal segment holds a character with a meaning in a regular expression
PlainLiterals(template) ==
    \A k \in 1..Len(Split(template, "/")) :
        LET part == Split(template, "/")[k]
        IN IsNamed(part) \/ \A i \in 1..Len(part) : part[i] \notin RegexMeta

\* path is template with a string without "/" in place of every named segment
Substitutes(template, path) ==
    LET tparts == Split(template, "/")
        pparts == Split(path, "/")
    IN /\ Len(tparts) = Len(pparts)
       /\ \A k \in 1..Len(tparts) : IsNamed(tparts[k]) \/ pparts[k] = tparts[k]

\* the strings put in place of the named segments, left to right
RECURSIVE Substituted(_, _)
Substituted(tparts, pparts) ==
    IF Len(tparts) = 0 THEN <<>>
    ELSE (IF IsNamed(tparts[1]) THEN <<pparts[1]>> ELSE <<>>)
         \o Substituted(Tail(tparts), Tail(pparts))

SubstitutedIn(template, path) == Substituted(Split(template, "/"), Split(path, "/"))

\* the route recovers the substituted strings: it is the one dispatched to,
\* its sub-matches are the strings in segment order, and the name recorded at
\* each position is that of the segment at that position
Recovers(template, path) ==
    /\ invoked = <<1>>
    /\ captured = SubstitutedIn(template, path)
    /\ Len(routes[1].params) = Len(NamedSegments(template))
    /\ \A k \in 1..Len(NamedSegments(template)) :
          /\ Tail(routes[1].params[k]) = SegmentName(NamedSegments(template)[k])
          /\ captured[k] \in Range(seen[routes[1].params[k]])

\* a request of the method of the only route, for a path made from its
\* template with non-empty strings, has been scanned
RoundTripCase ==
    /\ Scanned
    /\ Len(routes) = 1
    /\ req.method = routes[1].method
    /\ routes[1].handler.kind = "user"
    /\ NoOverrides(registered[1])
    /\ DistinctNames(registered[1])
    /\ Substitutes(registered[1], req.path)
    /\ \A k \in 1..Len(SubstitutedIn(registered[1], req.path)) :
          SubstitutedIn(registered[1], req.path)[k] # <<>>

\* C6 as stated: for every template with distinct parameter names and no
\* inline override, a path made by putting a (non-empty) string without "/"
\* in place of every named segment matches the route and yields those
\* strings.
C6_RoundTripAnyTemplate == RoundTripCase => Recovers(registered[1], req.path)

\* C6, amended: for every template with distinct parameter names, no inline
\* override and no regular-expression metacharacter in a literal segment, a
\* path made by putting a non-empty string without "/" in place of every
\* named segment matches the route and yields those strings, in segment
\* order, each under the name recorded at its position.
C6_RoundTrip ==
    (RoundTripCase /\ PlainLiterals(registered[1]))
    => Recovers(registered[1], req.path)

\* C6: /a/:x/:y has served /a/11/b and recovered 11 and b
C6_Witness ==
    /\ pc = "done"
    /\ Len(routes) = 1
    /\ registered[1] = <<"/", "a", "/", ":", "x", "/", ":", "y">>
    /\ req.path = <<"/", "a", "/", "1", "1", "/", "b">>
    /\ invoked = <<1>>
    /\ captured = <<<<"1", "1">>, <<"b">>>>

\* C7: every route's parameter map has as many entries as its compiled
\* pattern has capturing groups.
C7_ParamMapMatchesGroups ==
    \A i \in 1..Len(routes) : Len(routes[i].params) = routes[i].regex.ncap

\* the captured values injected under key, in capture order
RECURSIVE InjectedUnder(_, _, _)
InjectedUnder(key, params, values) ==
    IF Len(values) = 0 THEN <<>>
    ELSE (IF (IF Len(params) > 0 THEN params[1] ELSE <<>>) = key
          THEN <<values[1]>> ELSE <<>>)
         \o InjectedUnder(key, IF Len(params) > 0 THEN Tail(params) ELSE <<>>,
                          Tail(values))

\* C8: after the injection every key of the request's query string holds its
\* original values in their order, followed by the path values captured under
\* that key; no value is removed or replaced.
C8_AppendOnCollision ==
    (Scanned /\ invoked # <<>>) =>
        \A key \in DOMAIN ParseQuery(rawQuery0) :
            /\ key \in DOMAIN seen
            /\ seen[key] = ParseQuery(rawQuery0)[key]
                           \o InjectedUnder(key, InvokedRoute.params, captured)

\* C8: the query ":x=7&b=1" and the route /:x, which captured 1 under ":x"
C8_Witness ==
    /\ pc = "done"
    /\ invoked # <<>>
    /\ rawQuery0 = <<"%", "3", "A", "x", "=", "7", "&", "b", "=", "1">>
    /\ ParseQuery(rawQuery0)[<<":", "x">>] = <<<<"7">>>>
    /\ InvokedRoute.params = <<<<":", "x">>>>
    /\ seen[<<":", "x">>] = <<<<"7">>, <<"1">>>>
    /\ seen[<<"b">>] = <<<<"1">>>>

\* C9: the headers sent with the status carry Content-Length and
\* Access-Control-Allow-Origin, whether the first output was a Write or a
\* WriteHeader.
C9_HeadersSetBeforeSend ==
    resp.sink.wroteHeader =>
        {"Content-Length", "Access-Control-Allow-Origin"} \subseteq DOMAIN resp.sink.sentHdr

\* file lies inside dir: it is dir, or dir followed by "/" and a path with no
\* ".." element
Inside(dir, file) ==
    \/ file = dir
    \/ /\ HasPrefix(file, dir \o <<"/">>)
       /\ <<".", ".">> \notin Range(Split(SubSeq(file, Len(dir) + 2, Len(file)), "/"))

\* C10: every file path the handler of a Static route hands to
\* http.ServeFile lies inside the directory the route was registered with.
C10_StaticStaysInside ==
    \A k \in 1..Len(served) : Inside(InvokedRoute.handler.dir, served[k])

\* C10: a request path with ".." elements, matched by a Static route
C10_Witness ==
    /\ pc = "done"
    /\ req.path = <<"/", "f", "/", ".", ".", "/", ".", ".", "/", "b">>
    /\ served = <<<<"/", "s", "/", "b">>>>

(***************************************************************************)
(* Registration that fails.                                                *)
(***************************************************************************)
\* the pattern of every route of the table was compiled without an error
AllCompiled ==
    \A i \in 1..Len(routes) :
        /\ Compile(routes[i].regex.expr).ok
        /\ routes[i].regex.expr = RewritePattern(registered[i])

\* AddRoute has panicked exactly when the last pattern it was given has no
\* route, and that pattern does not compile
PanicLeavesNoRoute ==
    /\ Len(registered) = Len(routes) + (IF panicked THEN 1 ELSE 0)
    /\ panicked => ~Compile(RewritePattern(registered[Len(registered)])).ok

\* C11: a call of AddRoute with a template whose rewritten pattern does not
\* compile panics and leaves the route table as it was before the call, and a
\* call that appends a route appends one whose pattern compiled; so every
\* route of the table has a compiled pattern.
C11_FailedRegistrationLeavesNoRoute ==
    /\ [](AllCompiled /\ PanicLeavesNoRoute)
    /\ [][/\ (panicked' /\ ~panicked) => routes' = routes
          /\ routes' # routes =>
                /\ ~panicked'
                /\ SubSeq(routes', 1, Len(routes)) = routes
                /\ Len(routes') = Len(routes) + 1]_vars

\* C11: a route is registered, and then AddRoute is given "/a++": it has
\* panicked and the table holds the one route
C11_Witness ==
    /\ panicked
    /\ Len(routes) = 1
    /\ registered[2] = <<"/", "a", "+", "+">>

(***************************************************************************)
(* The access log.                                                         *)
(***************************************************************************)
\* C12: ServeHTTP has written no log line while the scan, the OPTIONS
\* aggregation and the not-found fallback of the request are still to run;
\* when it completes it has written one line if Logging is true and none if
\* it is false, and the line holds the status and size the wrapper has after
\* all three.
C12_OneLogLineAtTheEnd ==
    /\ pc \in {"scan", "inject", "invoke", "handler", "options", "notfound", "log"}
          => logged = <<>>
    /\ pc = "done" =>
          /\ Len(logged) = (IF Logging THEN 1 ELSE 0)
          /\ \A k \in 1..Len(logged) :
                /\ logged[k].status = resp.w.status
                /\ logged[k].size = resp.w.size
                /\ logged[k].method = req.method
                /\ logged[k].path = req.path

\* C12: an OPTIONS request whose handler wrote two bytes; the one line was
\* written after the handler and the aggregation, with its status 200
C12_Witness ==
    /\ pc = "done"
    /\ Logging
    /\ req.method = OPTIONS
    /\ invoked # <<>>
    /\ logged = <<[method |-> OPTIONS, path |-> req.path, status |-> 200, size |-> 2]>>

\* C12: with Logging false a request completes without a line
C12_WitnessSilent ==
    /\ pc = "done"
    /\ ~Logging
    /\ invoked # <<>>
    /\ logged = <<>>

(***************************************************************************)
(* Full-length match.                                                      *)
(***************************************************************************)
\* the match the route's pattern finds in the path is the entire path: it
\* starts before the first character and ends after the last
Spans(route, path) ==
    LET found == SearchFrom(route.regex, path, 0)
    IN found.ok /\ found.caps[0] = 0 /\ found.end = Len(path)

\* the pattern matches in the path, and the match it finds leaves out a part
\* of the path
MatchesPartOnly(route, path) ==
    MatchString(route.regex, path) /\ ~Spans(route, path)

\* the routes of the table whose match spans the path, in table order
SpanningRoutes == SelectSeq(routes, LAMBDA route : Spans(route, req.path))

\* C13: the route whose handler is invoked is one whose match spans the
\* entire request path, and the Public header of an OPTIONS request is the
\* one the table would give without the routes whose match does not span the
\* path: a route whose pattern matches only a proper part of the path is not
\* invoked and adds no method.
C13_FullLengthMatch ==
    /\ Scanned =>
          /\ \A k \in 1..Len(invoked) : Spans(routes[invoked[k]], req.path)
          /\ \A i \in 1..Len(routes) :
                MatchesPartOnly(routes[i], req.path) => i \notin Range(invoked)
    /\ (pc = "done" /\ req.method = OPTIONS) =>
          resp.sink.hdr["Public"] = JoinMethods(OptionsList(SpanningRoutes, req.path))

\* C13: GET /:x(1+) and the request GET /a/1/b, in which the pattern matches
\* the inner "/1": no handler ran and the reply is the not-found one
C13_Witness ==
    /\ pc = "done"
    /\ req.method = GET
    /\ req.path = <<"/", "a", "/", "1", "/", "b">>
    /\ Len(routes) = 1
    /\ routes[1].method = GET
    /\ FindStringSubmatch(routes[1].regex, req.path)[1] = <<"/", "1">>
    /\ invoked = <<>>
    /\ resp.sink.sentStatus = 404

\* C13: an OPTIONS request for a path of which the GET route's pattern
\* matches a proper prefix: the header names neither GET nor HEAD
C13_WitnessOptions ==
    /\ pc = "done"
    /\ req.method = OPTIONS
    /\ Len(routes) = 1
    /\ routes[1].method = GET
    /\ MatchesPartOnly(routes[1], req.path)
    /\ resp.sink.hdr["Public"] = "OPTIONS"

(***************************************************************************)
(* Duplicates in the Public header.                                        *)
(***************************************************************************)
\* the values a Public header without a repeated method can have: the
\* methods of a set, in lexicographic order, joined by ", "
DeduplicatedValues ==
    {JoinMethods(SelectSeq(MethodsInOrder, LAMBDA m : m \in S)) : S \in SUBSET Methods}

\* C14: after an OPTIONS request no method name appears more than once in the
\* value of the Public header.
C14_PublicDeduplicated ==
    (pc = "done" /\ req.method = OPTIONS) =>
        resp.sink.hdr["Public"] \in DeduplicatedValues

(***************************************************************************)
(* The condition of the not-found fallback.                                *)
(***************************************************************************)
\* a Write or a WriteHeader call has been made through the wrapper: both
\* reach the underlying writer, which has then sent its header (no handler
\* of the model sends an informational status)
CalledThroughWrapper == resp.sink.wroteHeader

\* rsp is the not-found reply and nothing else: status 404 sent and
\* recorded, the 19 bytes of the message handed to the writer, which sends
\* them unless the request is a HEAD request
IsNotFoundReply(rsp) ==
    /\ rsp.sink.sentStatus = 404
    /\ rsp.w.status = 404
    /\ rsp.sink.offered = NotFoundBodyLen
    /\ rsp.sink.body = IF rsp.sink.head THEN 0 ELSE NotFoundBodyLen

\* C15: at the fallback test, after the scan and the OPTIONS aggregation,
\* ServeHTTP sends the not-found reply (status 404 and its body, which a HEAD
\* request is not sent) if no Write or WriteHeader call has been made through
\* the wrapper, and leaves the response as it is if one has been made.  So once the test is over, a request that is
\* not OPTIONS and invoked no handler has the not-found reply, and an OPTIONS
\* request, for which the aggregation has called WriteHeader, does not.
C15_NotFoundIffNothingWritten ==
    /\ [][pc = "notfound" =>
            IF CalledThroughWrapper
            THEN resp' = resp
            ELSE /\ resp' = NotFoundReply(resp)
                 /\ IsNotFoundReply(resp')]_vars
    /\ [](pc \in {"log", "done"} =>
            /\ (req.method # OPTIONS /\ invoked = <<>>) => resp.sink.sentStatus = 404
            /\ (req.method = OPTIONS /\ invoked = <<>>) => resp.sink.sentStatus = 200)

\* C15: the handler of the first of two routes ran for a GET request and
\* returned without a call on the wrapper; the fallback has replied
C15_Witness ==
    /\ pc = "log"
    /\ req.method = GET
    /\ Len(routes) = 2
    /\ invoked = <<1>>
    /\ routes[1].handler.kind = "user"
    /\ resp.w.status = 404
    /\ resp.w.size = NotFoundBodyLen

\* C15: the handler set status 500 and wrote no body; no fallback
C15_WitnessNoFallback ==
    /\ pc = "log"
    /\ invoked # <<>>
    /\ resp.sink.sentStatus = 500
    /\ resp.sink.body = 0

(***************************************************************************)
(* The OPTIONS aggregation after a handler.                                *)
(***************************************************************************)
\* ServeHTTP is past the OPTIONS aggregation
Aggregated == pc \in {"notfound", "log", "done"}

\* C16: when an OPTIONS request has invoked the handler of a route registered
\* with method OPTIONS, the aggregation has run after it and the response
\* has status 200 and a Public header (read here as the header the code has
\* set, sent or not); for a request of another method the aggregation has
\* not run: no Public header is set.
C16_OptionsAfterHandler ==
    Aggregated =>
        /\ (req.method = OPTIONS /\ invoked # <<>>) =>
              /\ routes[invoked[1]].method = OPTIONS
              /\ "Public" \in DOMAIN resp.sink.hdr
              /\ resp.sink.sentStatus = 200
        /\ req.method # OPTIONS => "Public" \notin DOMAIN resp.sink.hdr

(***************************************************************************)
(* The method filter.                                                      *)
(***************************************************************************)
\* the routes of method m whose match spans the request path
Covering(m) ==
    {i \in 1..Len(routes) : routes[i].method = m /\ Spans(routes[i], req.path)}

\* C17: the route whose handler is invoked has the method of the request.
\* A HEAD request for a path that a GET route and no HEAD route covers
\* invokes no handler and is answered by the not-found fallback (its status
\* and headers: the body of a reply to HEAD is not sent), while the OPTIONS
\* aggregation for the same path lists HEAD.
C17_StrictMethodFilter ==
    /\ Scanned => \A k \in 1..Len(invoked) : routes[invoked[k]].method = req.method
    /\ (pc \in {"log", "done"} /\ req.method = HEAD
           /\ Covering(GET) # {} /\ Covering(HEAD) = {}) =>
          /\ invoked = <<>>
          /\ IsNotFoundReply(resp)
          /\ resp.sink.body = 0
          /\ HEAD \in Range(OptionsList(routes, req.path))

\* C17: HEAD /a with the table GET /a, POST /a: no handler, the 404 reply
C17_Witness ==
    /\ pc = "done"
    /\ req.method = HEAD
    /\ req.path = <<"/", "a">>
    /\ Covering(GET) = {1}
    /\ Covering(POST) = {2}
    /\ invoked = <<>>
    /\ resp.sink.sentStatus = 404

(***************************************************************************)
(* The status in the access log.                                           *)
(***************************************************************************)
\* C19: the status of the line ServeHTTP logs for a request is the status
\* that was sent to the client, whatever the handler did.
C19_LoggedStatusIsSent ==
    pc = "done" =>
        \A k \in 1..Len(logged) : logged[k].status = resp.sink.sentStatus

(***************************************************************************)
(* Content-Length and the body.                                            *)
(***************************************************************************)
\* the calls made on the wrapper so far are Write calls, one or more: a
\* WriteHeader call would have recorded its status
OnlyWrites == resp.w.started /\ resp.w.status = 0

\* C20: when the body is produced by Write calls alone, the Content-Length
\* sent with the headers is the total number of bytes handed to Write.
C20_ContentLengthIsBodyLength ==
    OnlyWrites =>
        /\ "Content-Length" \in DOMAIN resp.sink.sentHdr
        /\ Atoi(resp.sink.sentHdr["Content-Length"]) = resp.sink.offered

(***************************************************************************)
(* Concurrent dispatch.                                                    *)
(***************************************************************************)
\* ServeHTTP for request r alone on the table rs, run from its first line to
\* its last with nothing in between, with a handler that makes the calls
\* given: the routes selected, the request the handler saw and the response
\* at the end
Alone(rs, r, calls) ==
    LET i == FirstMatch(rs, r, 1)
        handed == IF i = 0 THEN r
                  ELSE [r EXCEPT !.rawQuery = InjectedQuery(rs[i], r)]
        handled == IF i = 0 THEN ResponseFor(r.method)
                   ELSE ApplyCalls(ResponseFor(r.method), calls)
        aggregated == IF r.method = OPTIONS
                      THEN OptionsRequest(rs, handed, handled) ELSE handled
    IN [invoked |-> IF i = 0 THEN <<>> ELSE <<i>>,
        req |-> handed,
        resp |-> NotFoundFallback(aggregated)]

\* goroutine k, whose steps were taken one at a time among those of the
\* other goroutine, has the outcome of its request dispatched alone: the
\* same route selected, the same rewritten query, the same response, for a
\* handler that makes the calls the handler of k made, which are calls the
\* handler of that route may make for that request
SameAsAlone(k) ==
    LET me == inflight[k]
        alone == Alone(routes, me.arrived, me.calls)
    IN /\ me.invoked = alone.invoked
       /\ me.req = alone.req
       /\ me.resp = alone.resp
       /\ alone.invoked # <<>> =>
             me.calls \in Behaviours(routes[alone.invoked[1]].handler, alone.req)

\* C18: while a call of ServeHTTP is running no step changes the route table
\* (or Logging), and however the steps of the concurrent calls interleave
\* (iterations of the loops over the routes, calls of the handlers, the
\* stretches between), each call ends with the selected route, the injected
\* parameters and the response of its request dispatched alone on that table.
C18_ConcurrentDispatchReadOnly ==
    /\ [][~NoneInFlight => (routes' = routes /\ Logging' = Logging)]_vars
    /\ [](\A k \in Requests : inflight[k].pc \in {"log", "done"} => SameAsAlone(k))

\* C18: two calls interleaved.  The handler of PUT /a (first route) has made
\* the first of its two calls and not yet the second; in between, OPTIONS /1
\* was scanned, handled by the second route with the captured value
\* injected, went through optionsRequest and is before its log line
C18_Witness ==
    /\ inflight["r1"].pc = "handler"
    /\ inflight["r1"].arrived.method = PUT
    /\ inflight["r1"].invoked = <<1>>
    /\ Len(inflight["r1"].calls) = 2
    /\ Len(inflight["r1"].todo) = 1
    /\ inflight["r2"].pc = "log"
    /\ inflight["r2"].arrived.method = OPTIONS
    /\ inflight["r2"].invoked = <<2>>
    /\ inflight["r2"].oat = 3
    /\ <<":", "x">> \in DOMAIN ParseQuery(inflight["r2"].req.rawQuery)

=============================================================================
